---- MODULE Spec2Model ----
(***************************************************************************)
(* A model of the seashell SSH client front end.                          *)
(*                                                                         *)
(*   AuthSpec   Connection::authenticate and load_private_key              *)
(*              (src/src/client/connect.rs)                                *)
(*   TrustSpec  ClientHandler::check_server_key and its helpers            *)
(*              (src/src/client/handler.rs)                                *)
(*   SessionSpec  Connection::execute_command, start_interactive and       *)
(*              run_session (src/src/client/connect.rs)                    *)
(*   ResolveSpec, MergeSpec  resolve_server (src/src/lib.rs) with          *)
(*              Server and Scope (src/src/storage/config.rs)               *)
(*                                                                         *)
(* The SSH protocol engine (russh), the key agent, the key files and the  *)
(* terminal are the environment: every call into them returns one of the  *)
(* results its type allows, chosen nondeterministically.                   *)
(***************************************************************************)
EXTENDS Integers, Sequences, FiniteSets, TLC

(***************************************************************************)
(* Bounds of the model.                                                    *)
(***************************************************************************)
MaxMethods == 3
MaxAgentKeys == 2
MaxRounds == 1
MaxPrompts == 1
MaxLines == 2
MaxCalls == 2
MaxMsgs == 3
MaxIncoming == 2
MaxPending == 2
MaxReads == 2
MaxTicks == 2
MaxEntries == 2
MaxGlobals == 1
MaxUri == 5
MaxCommands == 3

(***************************************************************************)
(* Program constants.                                                      *)
(***************************************************************************)
MAX_PASSPHRASE_ATTEMPTS == 3

VARIABLES
    \* ---- Connection::authenticate ----
    private_key,      \* data.private_key is Some(path)
    openssh_cert,     \* data.openssh_cert is Some(path)
    agent_env,        \* AgentClient::connect_env() succeeds
    pc,               \* position of the authenticating task
    allowed_methods,  \* remaining_methods of the no-credential attempt
    idx,              \* position of the `for method in allowed_methods` loop
    pub_keys,         \* agent identities still to try, sorted
    ret,              \* caller of load_private_key
    attempts,         \* passphrase prompts made by load_private_key
    todo,             \* prompts of the current keyboard-interactive round
    rounds,           \* InfoRequest rounds served so far
    key,              \* result of load_private_key
    log,              \* history: calls into the engine, loads and prompts
    result,           \* result of Connection::authenticate
    \* ---- ClientHandler ----
    server_ip,        \* self.server_ip
    known_hosts,      \* the file at self.known_hosts: exists, content
    calls,            \* check_server_key calls made so far
    presented,        \* server_public_key of the last call
    stdin_line,       \* the line the last call read from stdin
    prompted,         \* the last call printed the unknown-host prompt
    verdict,          \* what the last call returned
    before,           \* the file as the last call found it
    \* ---- the session on the channel ----
    mode,             \* data.remote_cmd is Some: "command", else "interactive"
    spc,              \* position of the session task
    raw_mode,         \* the local terminal is in raw mode
    was_raw,          \* history: raw mode has been enabled
    stdin_closed,     \* run_session: stdin_closed
    width,            \* run_session: width
    height,           \* run_session: height
    received,         \* history: what channel.wait() has returned
    written,          \* history: payloads written to stdout
    sent,             \* history: requests made on the channel
    reads,            \* history: reads of local stdin
    ticks,            \* history: resize ticks served
    outgoing,         \* what the last stdin.read of the relay loop returned
    term_size,        \* what terminal::size() gave at the last resize tick
    pending,          \* messages the remote delivered that channel.wait() has yet to return
    sresult,          \* result of execute_command / start_interactive
    \* ---- resolve_server ----
    host,             \* server_uri.address
    config,           \* the Config in memory
    current_scope,    \* Context::into_scope()
    loaded,           \* history: the Config as it was loaded
    resolved,         \* what resolve_server returned
    \* ---- the connection parameters ----
    server_arg,       \* the server argument of the command line
    server_uri,       \* what ServerUri::from_str made of it
    conn_flags,       \* the connection flags of the command line
    env_user,         \* the environment variable USER, None when unset
    conn_data,        \* what ConnectionData::new returned
    \* ---- the configuration file and the subcommands ----
    config_file,      \* the file at CONFIG_PATH: exists, document
    outcome,          \* the last subcommand and what it returned
    \* ---- two client processes at the host-key check of one store ----
    rpc,              \* where each process stands in check_server_key
    rkey,             \* the key the server presents to each process
    appended          \* history: the entries trust_host has written, in order

authVars == << private_key, openssh_cert, agent_env, pc, allowed_methods, idx,
               pub_keys, ret, attempts, todo, rounds, key, log, result >>

trustVars == << server_ip, known_hosts, calls, presented, stdin_line, prompted,
                verdict, before >>

sessionVars == << mode, spc, raw_mode, was_raw, stdin_closed, width, height,
                  received, written, sent, reads, ticks, outgoing, term_size,
                  pending, sresult >>

resolveVars == << host, config, current_scope, loaded, resolved >>

dataVars == << server_arg, server_uri, conn_flags, env_user, conn_data >>

storeVars == << config_file, outcome >>

raceVars == << rpc, rkey, appended >>

vars == << authVars, trustVars, sessionVars, resolveVars, dataVars, storeVars,
          raceVars >>

\* what the actions of one part leave alone
otherThanAuth == << trustVars, sessionVars, resolveVars, dataVars, storeVars, raceVars >>
otherThanTrust == << authVars, sessionVars, resolveVars, dataVars, storeVars, raceVars >>
otherThanSession == << authVars, trustVars, resolveVars, dataVars, storeVars, raceVars >>
otherThanResolve == << authVars, trustVars, sessionVars, dataVars, storeVars, raceVars >>
otherThanData == << authVars, trustVars, sessionVars, storeVars, raceVars >>
otherThanStore == << authVars, trustVars, sessionVars, dataVars, raceVars >>
otherThanRace == << authVars, sessionVars, resolveVars, dataVars, storeVars,
                    server_ip, calls, presented, stdin_line, prompted, verdict, before >>

(***************************************************************************)
(* russh::MethodKind and MethodSet.  A MethodSet holds each kind at most   *)
(* once, in the order the server named them.  A server does not list       *)
(* "none" among the methods that can continue (RFC 4252, 5.2).             *)
(***************************************************************************)
MethodKind == {"None", "Password", "PublicKey", "HostBased", "KeyboardInteractive"}

Advertised == MethodKind \ {"None"}

RECURSIVE SeqsUpTo(_, _)
SeqsUpTo(S, n) ==
    IF n = 0 THEN {<< >>}
    ELSE LET shorter == SeqsUpTo(S, n - 1)
         IN  shorter \cup {Append(s, x) : s \in shorter, x \in S}

NoDuplicates(s) == \A i, j \in 1..Len(s) : s[i] = s[j] => i = j

MethodSet == {s \in SeqsUpTo(Advertised, MaxMethods) : NoDuplicates(s)}

\* <&MethodKind as Into<String>>::into
MethodName(m) ==
    CASE m = "None" -> "none"
      [] m = "Password" -> "password"
      [] m = "PublicKey" -> "publickey"
      [] m = "HostBased" -> "hostbased"
      [] m = "KeyboardInteractive" -> "keyboard-interactive"

\* .iter().map(Into::into).collect::<Vec<String>>().join(", ")
RECURSIVE JoinNames(_)
JoinNames(ms) ==
    IF Len(ms) = 0 THEN ""
    ELSE IF Len(ms) = 1 THEN MethodName(ms[1])
    ELSE MethodName(ms[1]) \o ", " \o JoinNames(Tail(ms))

\* the list walked from its end
MethodAtReversed(ms, i) == ms[Len(ms) + 1 - i]

\* the element the for loop visits at position i
MethodAt(ms, i) == ms[i]

(***************************************************************************)
(* Results.                                                                *)
(***************************************************************************)
Pending == [status |-> "Pending", err |-> "", text |-> ""]
Ok == [status |-> "Ok", err |-> "", text |-> ""]
Err(e, t) == [status |-> "Err", err |-> e, text |-> t]

AuthResults == {"Success", "Failure", "Err"}
LoadResults == {"Ok", "KeyIsEncrypted", "Crypto", "Other"}

\* one entry of the history: the operation, its argument and its result
Event(op, arg, res) == [op |-> op, arg |-> arg, res |-> res]

\* the task moves on inside authenticate
Goto(p) ==
    /\ pc' = p
    /\ UNCHANGED << idx, result >>

\* `return Ok(())` from authenticate
ReturnOk ==
    /\ pc' = "done"
    /\ result' = Ok
    /\ UNCHANGED idx

\* a try_* function returned Ok(false), or the match said `continue`: the
\* for loop goes on to the next method
NextMethod ==
    /\ pc' = "loop"
    /\ idx' = idx + 1
    /\ UNCHANGED result

\* an error that only moves the loop on
FailSkipsMethod(e, t) == NextMethod

\* the `?` operator, and the explicit `return Err(..)`: authenticate returns
\* the error at once
Fail(e, t) ==
    /\ pc' = "done"
    /\ result' = Err(e, t)
    /\ UNCHANGED idx

\* the flag of the try_* function not looked at
FinishIgnoresFlag(authenticated) == ReturnOk

\* a try_* function returned Ok(authenticated): `if authenticated { return Ok(()) }`
Finish(authenticated) ==
    IF authenticated THEN ReturnOk ELSE NextMethod

\* what a try_* function takes for success when an authenticate_* call
\* returned: any Ok(_), the AuthResult in it being dropped (`.is_ok()`,
\* `.map_err(..)?; Ok(true)`)
Authenticated(r) == r \in {"Success", "Failure"}

(***************************************************************************)
(* Connection::authenticate                                                *)
(***************************************************************************)
\* no server argument has been parsed
DataIdle ==
    /\ server_arg = << >>
    /\ server_uri = [kind |-> "Pending"]
    /\ conn_flags = [user |-> "None"]
    /\ env_user = "None"
    /\ conn_data = [kind |-> "Pending"]

\* no second process runs the host-key check
RaceIdle ==
    /\ rpc = << >>
    /\ rkey = << >>
    /\ appended = << >>

\* no subcommand has run
StoreIdle ==
    /\ config_file = [exists |-> FALSE, document |-> << >>]
    /\ outcome = [kind |-> "Pending"]

\* no configuration has been loaded
ResolveIdle ==
    /\ host = << >>
    /\ config = [default |-> << >>, scopes |-> << >>, servers |-> << >>]
    /\ current_scope = << >>
    /\ loaded = [default |-> << >>, scopes |-> << >>, servers |-> << >>]
    /\ resolved = [kind |-> "Pending"]

\* no channel has been opened
SessionIdle ==
    /\ mode = "none"
    /\ spc = "idle"
    /\ raw_mode = FALSE
    /\ was_raw = FALSE
    /\ stdin_closed = FALSE
    /\ width = 0
    /\ height = 0
    /\ received = << >>
    /\ written = << >>
    /\ sent = << >>
    /\ reads = 0
    /\ ticks = 0
    /\ outgoing = [kind |-> "None", bytes |-> ""]
    /\ term_size = << "None", << 0, 0 >> >>
    /\ pending = << >>
    /\ sresult = Pending

\* no authentication is under way
AuthIdle ==
    /\ private_key = FALSE
    /\ openssh_cert = FALSE
    /\ agent_env = FALSE
    /\ pc = "idle"
    /\ allowed_methods = << >>
    /\ idx = 0
    /\ pub_keys = << >>
    /\ ret = "none"
    /\ attempts = 0
    /\ todo = 0
    /\ rounds = 0
    /\ key = "unloaded"
    /\ log = << >>
    /\ result = Pending

\* no connection has reached the host-key check
TrustIdle ==
    /\ server_ip = ""
    /\ known_hosts = [exists |-> FALSE, content |-> << >>]
    /\ calls = 0
    /\ presented = [alg |-> "", key |-> ""]
    /\ stdin_line = << >>
    /\ prompted = FALSE
    /\ verdict = "none"
    /\ before = [exists |-> FALSE, content |-> << >>]

AuthInit ==
    /\ TrustIdle
    /\ SessionIdle
    /\ ResolveIdle
    /\ DataIdle
    /\ StoreIdle
    /\ RaceIdle
    /\ private_key \in BOOLEAN
    /\ openssh_cert \in BOOLEAN
    /\ agent_env \in BOOLEAN
    /\ pc = "authenticate"
    /\ allowed_methods = << >>
    /\ idx = 0
    /\ pub_keys = << >>
    /\ ret = "none"
    /\ attempts = 0
    /\ todo = 0
    /\ rounds = 0
    /\ key = "unloaded"
    /\ log = << >>
    /\ result = Pending

\* session.authenticate_none(&self.data.user) and the match on its result
AuthenticateNone(r, methods) ==
    /\ pc = "authenticate"
    /\ log' = Append(log, Event("authenticate_none", "", r))
    /\ CASE r = "Success" ->
              ReturnOk /\ UNCHANGED allowed_methods
         [] r = "Failure" ->
              /\ allowed_methods' = methods
              /\ idx' = 1
              /\ pc' = "loop"
              /\ UNCHANGED result
         [] r = "Err" ->
              Fail("AuthUnavailable", "") /\ UNCHANGED allowed_methods
    /\ UNCHANGED << private_key, openssh_cert, agent_env, pub_keys, ret,
                    attempts, todo, rounds, key >>
    /\ UNCHANGED otherThanAuth

\* one turn of `for method in allowed_methods.iter()`: the match on the
\* kind, and after the last turn the AuthFailed error
MethodStep ==
    /\ pc = "loop"
    /\ IF idx > Len(allowed_methods)
       THEN Fail("AuthFailed", JoinNames(allowed_methods))
       ELSE CASE MethodAt(allowed_methods, idx) = "PublicKey" -> Goto("rsa_hash")
              [] MethodAt(allowed_methods, idx) = "KeyboardInteractive" -> Goto("kbd_start")
              [] MethodAt(allowed_methods, idx) = "Password" -> Goto("password")
              [] OTHER -> NextMethod
    /\ UNCHANGED << private_key, openssh_cert, agent_env, allowed_methods,
                    pub_keys, ret, attempts, todo, rounds, key, log >>
    /\ UNCHANGED otherThanAuth

\* session.best_supported_rsa_hash().await?
BestSupportedRsaHash(ok) ==
    /\ pc = "rsa_hash"
    /\ log' = Append(log, Event("best_supported_rsa_hash", "", IF ok THEN "Ok" ELSE "Err"))
    /\ IF ok THEN Goto("agent") ELSE Fail("Russh", "")
    /\ UNCHANGED << private_key, openssh_cert, agent_env, allowed_methods,
                    pub_keys, ret, attempts, todo, rounds, key >>
    /\ UNCHANGED otherThanAuth

(***************************************************************************)
(* Connection::try_agent_auth                                              *)
(***************************************************************************)
\* what agent.request_identities() may return: up to MaxAgentKeys keys, each
\* with a comment that mentions the address or the user, or not
AgentIdentities ==
    {[i \in 1..Len(f) |-> [id |-> i, matches |-> f[i]]] :
        f \in SeqsUpTo(BOOLEAN, MaxAgentKeys)}

Matching(k) == k.matches
NotMatching(k) == ~k.matches

\* pub_keys.sort_by_key(|key| !matches): a stable sort, matching keys first
SortByKey(keys) == SelectSeq(keys, Matching) \o SelectSeq(keys, NotMatching)

\* AgentClient::connect_env(), agent.request_identities(), the sort
TryAgentAuth(identitiesOk, keys) ==
    /\ pc = "agent"
    /\ IF ~agent_env
       THEN /\ log' = Append(log, Event("connect_env", "", "Err"))
            /\ Goto("certificate")
            /\ UNCHANGED pub_keys
       ELSE IF ~identitiesOk
       THEN /\ log' = Append(log, Event("request_identities", "", "Err"))
            /\ Fail("Agent", "")
            /\ UNCHANGED pub_keys
       ELSE /\ log' = Append(log, Event("request_identities", "", "Ok"))
            /\ pub_keys' = SortByKey(keys)
            /\ Goto(IF keys = << >> THEN "certificate" ELSE "agent_keys")
    /\ UNCHANGED << private_key, openssh_cert, agent_env, allowed_methods,
                    ret, attempts, todo, rounds, key >>
    /\ UNCHANGED otherThanAuth

\* one turn of `for key in pub_keys`: authenticate_publickey_with(..).is_ok()
AgentKey(r) ==
    /\ pc = "agent_keys"
    /\ log' = Append(log, Event("authenticate_publickey_with", Head(pub_keys).id, r))
    /\ IF Authenticated(r)
       THEN Finish(TRUE) /\ UNCHANGED pub_keys
       ELSE /\ pub_keys' = Tail(pub_keys)
            /\ Goto(IF Len(pub_keys) = 1 THEN "certificate" ELSE "agent_keys")
    /\ UNCHANGED << private_key, openssh_cert, agent_env, allowed_methods,
                    ret, attempts, todo, rounds, key >>
    /\ UNCHANGED otherThanAuth

(***************************************************************************)
(* load_private_key                                                        *)
(***************************************************************************)
\* load_private_key returned Ok(key) to its caller
KeyLoaded ==
    /\ key' = "Ok"
    /\ Goto(IF ret = "certificate" THEN "load_cert" ELSE "pubkey_auth")

\* load_private_key returned Err(e); the caller's map_err(PrivateKey)? ends
\* authenticate
KeyFailed(e) ==
    /\ key' = e
    /\ Fail("PrivateKey", e)

\* every error taken for a wrong passphrase
RetriesOnAnyError(r) == r # "Ok"

\* the errors on which the passphrase loop goes on to its next turn
Retries(r) == r = "Crypto"

\* load_secret_key(key_path, None) and the match on its result
LoadSecretKey(r) ==
    /\ pc = "load_key"
    /\ log' = Append(log, Event("load_secret_key", "None", r))
    /\ CASE r = "Ok" -> KeyLoaded
         [] r = "KeyIsEncrypted" -> Goto("passphrase") /\ UNCHANGED key
         [] OTHER -> KeyFailed(r)
    /\ UNCHANGED << private_key, openssh_cert, agent_env, allowed_methods,
                    pub_keys, ret, attempts, todo, rounds >>
    /\ UNCHANGED otherThanAuth

\* one turn of `for _ in 1..=MAX_PASSPHRASE_ATTEMPTS`: the prompt, then
\* load_secret_key(key_path, Some(passphrase)); after the last turn
\* Err(Crypto)
Passphrase(promptOk, r) ==
    /\ pc = "passphrase"
    /\ attempts < MAX_PASSPHRASE_ATTEMPTS
    /\ attempts' = attempts + 1
    /\ IF ~promptOk
       THEN /\ log' = Append(log, Event("prompt", "passphrase", "Err"))
            /\ KeyFailed("IO")
       ELSE /\ log' = log \o << Event("prompt", "passphrase", "Ok"),
                                Event("load_secret_key", "Some", r) >>
            /\ IF r = "Ok" THEN KeyLoaded
               ELSE IF ~Retries(r) THEN KeyFailed(r)
               ELSE IF attempts + 1 < MAX_PASSPHRASE_ATTEMPTS
               THEN Goto("passphrase") /\ UNCHANGED key
               ELSE KeyFailed("Crypto")
    /\ UNCHANGED << private_key, openssh_cert, agent_env, allowed_methods,
                    pub_keys, ret, todo, rounds >>
    /\ UNCHANGED otherThanAuth

(***************************************************************************)
(* Connection::try_certificate_auth and try_publickey_auth                 *)
(***************************************************************************)
\* the match on (&self.data.private_key, &self.data.openssh_cert)
TryCertificateAuth ==
    /\ pc = "certificate"
    /\ IF private_key /\ openssh_cert
       THEN Goto("load_key") /\ ret' = "certificate"
       ELSE Goto("publickey") /\ UNCHANGED ret
    /\ UNCHANGED << private_key, openssh_cert, agent_env, allowed_methods,
                    pub_keys, attempts, todo, rounds, key, log >>
    /\ UNCHANGED otherThanAuth

\* load_openssh_certificate(cert_path).map_err(OpenSSHCert)?
LoadCertificate(ok) ==
    /\ pc = "load_cert"
    /\ log' = Append(log, Event("load_openssh_certificate", "", IF ok THEN "Ok" ELSE "Err"))
    /\ IF ok THEN Goto("cert_auth") ELSE Fail("OpenSSHCert", "")
    /\ UNCHANGED << private_key, openssh_cert, agent_env, allowed_methods,
                    pub_keys, ret, attempts, todo, rounds, key >>
    /\ UNCHANGED otherThanAuth

\* session.authenticate_openssh_cert(..).map_err(OpenSSHCertAuth)?; Ok(true)
AuthenticateCertificate(r) ==
    /\ pc = "cert_auth"
    /\ log' = Append(log, Event("authenticate_openssh_cert", "", r))
    /\ IF Authenticated(r) THEN Finish(TRUE) ELSE Fail("OpenSSHCertAuth", "")
    /\ UNCHANGED << private_key, openssh_cert, agent_env, allowed_methods,
                    pub_keys, ret, attempts, todo, rounds, key >>
    /\ UNCHANGED otherThanAuth

\* the match on &self.data.private_key
TryPublicKeyAuth ==
    /\ pc = "publickey"
    /\ IF private_key
       THEN Goto("load_key") /\ ret' = "publickey"
       ELSE Finish(FALSE) /\ UNCHANGED ret
    /\ UNCHANGED << private_key, openssh_cert, agent_env, allowed_methods,
                    pub_keys, attempts, todo, rounds, key, log >>
    /\ UNCHANGED otherThanAuth

\* session.authenticate_publickey(..).map_err(PubKeyAuth)?; Ok(true)
AuthenticatePublicKey(r) ==
    /\ pc = "pubkey_auth"
    /\ log' = Append(log, Event("authenticate_publickey", "", r))
    /\ IF Authenticated(r) THEN Finish(TRUE) ELSE Fail("PubKeyAuth", "")
    /\ UNCHANGED << private_key, openssh_cert, agent_env, allowed_methods,
                    pub_keys, ret, attempts, todo, rounds, key >>
    /\ UNCHANGED otherThanAuth

(***************************************************************************)
(* Connection::try_keyboard_interactive_auth                               *)
(***************************************************************************)
KbdResponses == {"Success", "Failure", "InfoRequest", "Err"}

\* the match on the KeyboardInteractiveAuthResponse r of a call, which asks
\* n prompts when it is an InfoRequest; Err is the call's own error
KbdResponse(r, n) ==
    CASE r = "Success" -> Finish(TRUE) /\ UNCHANGED << todo, rounds >>
      [] r = "Failure" -> Finish(FALSE) /\ UNCHANGED << todo, rounds >>
      [] r = "InfoRequest" ->
           /\ Goto("kbd_prompts")
           /\ todo' = n
           /\ rounds' = rounds + 1
      [] r = "Err" ->
           Fail("KeyboardInteractive", "") /\ UNCHANGED << todo, rounds >>

\* session.authenticate_keyboard_interactive_start(&self.data.user, None)
KeyboardInteractiveStart(r, n) ==
    /\ pc = "kbd_start"
    /\ r = "InfoRequest" => rounds < MaxRounds
    /\ log' = Append(log, Event("authenticate_keyboard_interactive_start", "", r))
    /\ KbdResponse(r, n)
    /\ UNCHANGED << private_key, openssh_cert, agent_env, allowed_methods,
                    pub_keys, ret, attempts, key >>
    /\ UNCHANGED otherThanAuth

\* one turn of `for prompt in prompts`: prompt!(..) with or without echo
KeyboardInteractivePrompt(promptOk) ==
    /\ pc = "kbd_prompts"
    /\ todo > 0
    /\ log' = Append(log, Event("prompt", "keyboard-interactive",
                                IF promptOk THEN "Ok" ELSE "Err"))
    /\ IF promptOk
       THEN todo' = todo - 1 /\ Goto("kbd_prompts")
       ELSE Fail("IO", "") /\ UNCHANGED todo
    /\ UNCHANGED << private_key, openssh_cert, agent_env, allowed_methods,
                    pub_keys, ret, attempts, rounds, key >>
    /\ UNCHANGED otherThanAuth

\* session.authenticate_keyboard_interactive_respond(responses)
KeyboardInteractiveRespond(r, n) ==
    /\ pc = "kbd_prompts"
    /\ todo = 0
    /\ r = "InfoRequest" => rounds < MaxRounds
    /\ log' = Append(log, Event("authenticate_keyboard_interactive_respond", "", r))
    /\ KbdResponse(r, n)
    /\ UNCHANGED << private_key, openssh_cert, agent_env, allowed_methods,
                    pub_keys, ret, attempts, key >>
    /\ UNCHANGED otherThanAuth

(***************************************************************************)
(* Connection::try_password_auth                                           *)
(***************************************************************************)
\* prompt!(..)?; session.authenticate_password(..).map_err(PasswordAuth)?;
\* Ok(true)
TryPasswordAuth(promptOk, r) ==
    /\ pc = "password"
    /\ IF ~promptOk
       THEN /\ log' = Append(log, Event("prompt", "password", "Err"))
            /\ Fail("IO", "")
       ELSE /\ log' = log \o << Event("prompt", "password", "Ok"),
                                Event("authenticate_password", "", r) >>
            /\ IF Authenticated(r) THEN Finish(TRUE) ELSE Fail("PasswordAuth", "")
    /\ UNCHANGED << private_key, openssh_cert, agent_env, allowed_methods,
                    pub_keys, ret, attempts, todo, rounds, key >>
    /\ UNCHANGED otherThanAuth

AuthNext ==
    \/ \E r \in AuthResults, ms \in MethodSet : AuthenticateNone(r, ms)
    \/ MethodStep
    \/ \E ok \in BOOLEAN : BestSupportedRsaHash(ok)
    \/ \E ok \in BOOLEAN, keys \in AgentIdentities : TryAgentAuth(ok, keys)
    \/ \E r \in AuthResults : AgentKey(r)
    \/ \E r \in LoadResults : LoadSecretKey(r)
    \/ \E ok \in BOOLEAN, r \in LoadResults : Passphrase(ok, r)
    \/ TryCertificateAuth
    \/ \E ok \in BOOLEAN : LoadCertificate(ok)
    \/ \E r \in AuthResults : AuthenticateCertificate(r)
    \/ TryPublicKeyAuth
    \/ \E r \in AuthResults : AuthenticatePublicKey(r)
    \/ \E r \in KbdResponses, n \in 0..MaxPrompts : KeyboardInteractiveStart(r, n)
    \/ \E ok \in BOOLEAN : KeyboardInteractivePrompt(ok)
    \/ \E r \in KbdResponses, n \in 0..MaxPrompts : KeyboardInteractiveRespond(r, n)
    \/ \E ok \in BOOLEAN, r \in AuthResults : TryPasswordAuth(ok, r)

AuthSpec == AuthInit /\ [][AuthNext]_vars

(***************************************************************************)
(* Properties of Connection::authenticate.                                 *)
(***************************************************************************)
AuthOps ==
    {"authenticate_none", "authenticate_publickey_with", "authenticate_openssh_cert",
     "authenticate_publickey", "authenticate_keyboard_interactive_start",
     "authenticate_keyboard_interactive_respond", "authenticate_password"}

\* the engine reported success for the call
Succeeded(e) == e.op \in AuthOps /\ e.res = "Success"

\* the advertised method an entry of the history belongs to
MethodOf(e) ==
    CASE e.op \in {"authenticate_password"} -> "Password"
      [] e.op = "prompt" /\ e.arg = "password" -> "Password"
      [] e.op \in {"authenticate_keyboard_interactive_start",
                   "authenticate_keyboard_interactive_respond"} -> "KeyboardInteractive"
      [] e.op = "prompt" /\ e.arg = "keyboard-interactive" -> "KeyboardInteractive"
      [] OTHER -> "PublicKey"

\* the place of a method in the advertised list, 0 when it is not in it
Position(m) ==
    IF \E i \in 1..Len(allowed_methods) : allowed_methods[i] = m
    THEN CHOOSE i \in 1..Len(allowed_methods) : allowed_methods[i] = m
    ELSE 0

Count(op, arg) == Cardinality({i \in 1..Len(log) : log[i].op = op /\ log[i].arg = arg})

NoneFailed == Len(log) >= 1 /\ log[1].op = "authenticate_none" /\ log[1].res = "Failure"

\* C1: authenticate ends in success only if the engine reported success for
\* the no-credential attempt or for one of the attempted methods; an attempt
\* answered with AuthResult::Failure never makes it end in success.
C1_SuccessOnlyOnEngineSuccess ==
    result.status = "Ok" => \E i \in 1..Len(log) : Succeeded(log[i])

\* C2: the no-credential attempt is the first call into the engine and is made
\* once; everything after it belongs to an advertised method the code
\* recognizes, in the order of the advertised list and never going back to
\* an earlier method; the single-shot calls and prompts of a method happen at
\* most once and each agent identity is tried at most once; nothing follows
\* a success; an unrecognized kind has no entry and ends nothing in an error.
C2_AdvertisedOrder ==
    /\ \A i \in 1..Len(log) : (log[i].op = "authenticate_none") <=> (i = 1)
    /\ \A i \in 2..Len(log) : Position(MethodOf(log[i])) >= 1
    /\ \A i, j \in 2..Len(log) :
          i < j => Position(MethodOf(log[i])) <= Position(MethodOf(log[j]))
    /\ \A op \in {"authenticate_password", "authenticate_openssh_cert",
                  "authenticate_publickey", "authenticate_keyboard_interactive_start",
                  "best_supported_rsa_hash", "connect_env", "request_identities"} :
          Count(op, "") <= 1
    /\ Count("prompt", "password") <= 1
    /\ \A i, j \in 1..Len(log) :
          /\ log[i].op = "authenticate_publickey_with"
          /\ log[j].op = "authenticate_publickey_with"
          /\ log[i].arg = log[j].arg
          => i = j
    /\ \A i \in 1..Len(log) : Succeeded(log[i]) => i = Len(log) /\ pc = "done"
    /\ pc \notin {"authenticate", "loop", "done"} =>
          allowed_methods[idx] \in {"PublicKey", "KeyboardInteractive", "Password"}
    /\ (pc = "done" /\ result.status = "Err" /\ idx \in 1..Len(allowed_methods)) =>
          allowed_methods[idx] \in {"PublicKey", "KeyboardInteractive", "Password"}

\* three methods were advertised, the first one unrecognized; an agent
\* identity was tried under PublicKey and later the password was sent
C2_Witness ==
    /\ pc = "done"
    /\ Len(allowed_methods) = 3
    /\ allowed_methods[1] = "HostBased"
    /\ \E i, j \in 1..Len(log) :
          /\ i < j
          /\ log[i].op = "authenticate_publickey_with"
          /\ log[j].op = "authenticate_password"

\* the errors of a credential-based method: reading from the terminal,
\* loading the key or the certificate, the engine's error for the attempt
CredentialErrors ==
    {"IO", "PrivateKey", "OpenSSHCert", "OpenSSHCertAuth", "PubKeyAuth",
     "KeyboardInteractive", "PasswordAuth"}

\* C3 as stated: an error of a credential-based method abandons that method
\* only, so authenticate never ends with such an error while advertised
\* methods remain untried.
C3_OnlyMethodAbandoned ==
    ~ /\ pc = "done"
      /\ result.status = "Err"
      /\ result.err \in CredentialErrors
      /\ idx < Len(allowed_methods)

\* an entry of the history that is an error of a credential-based method
CredentialError(e) ==
    \/ e.op = "prompt" /\ e.res = "Err"
    \/ e.op = "load_secret_key" /\ e.arg = "None" /\ e.res \in {"Crypto", "Other"}
    \/ e.op = "load_secret_key" /\ e.arg = "Some" /\ e.res \in {"KeyIsEncrypted", "Other"}
    \/ e.op = "load_openssh_certificate" /\ e.res = "Err"
    \/ /\ e.op \in {"authenticate_openssh_cert", "authenticate_publickey",
                    "authenticate_keyboard_interactive_start",
                    "authenticate_keyboard_interactive_respond",
                    "authenticate_password"}
       /\ e.res = "Err"

\* the SessionError (or I/O error) authenticate returns for it
ErrorFor(e) ==
    CASE e.op = "prompt" /\ e.arg = "passphrase" -> "PrivateKey"
      [] e.op = "prompt" -> "IO"
      [] e.op = "load_secret_key" -> "PrivateKey"
      [] e.op = "load_openssh_certificate" -> "OpenSSHCert"
      [] e.op = "authenticate_openssh_cert" -> "OpenSSHCertAuth"
      [] e.op = "authenticate_publickey" -> "PubKeyAuth"
      [] e.op = "authenticate_password" -> "PasswordAuth"
      [] OTHER -> "KeyboardInteractive"

\* C3, amended: an error of a credential-based method ends authenticate at
\* once with that error; nothing is attempted after it, whatever methods
\* remain in the advertised list.
C3_ErrorEndsAuthentication ==
    \A i \in 1..Len(log) :
        CredentialError(log[i]) =>
            /\ i = Len(log)
            /\ pc = "done"
            /\ result.status = "Err"
            /\ result.err = ErrorFor(log[i])

\* the password call returned an error while another method was still to come
C3_Witness ==
    /\ pc = "done"
    /\ result.err = "PasswordAuth"
    /\ idx < Len(allowed_methods)
    /\ log[Len(log)].op = "authenticate_password"

\* C4: when the no-credential attempt failed and every advertised method was
\* tried or skipped without the engine reporting a success (and without an
\* error ending the run early), authenticate fails with AuthFailed naming the
\* advertised methods in order; it does not return success.
C4_ExhaustionFails ==
    ( /\ pc = "done"
      /\ NoneFailed
      /\ \A i \in 1..Len(log) : ~Succeeded(log[i])
      /\ result.err \notin CredentialErrors \cup {"Russh", "Agent"} )
    => result = Err("AuthFailed", JoinNames(allowed_methods))

\* [PublicKey, Password] advertised, no agent, no key path, no certificate path
C5_Scenario ==
    /\ allowed_methods = << "PublicKey", "Password" >>
    /\ ~agent_env
    /\ ~private_key
    /\ ~openssh_cert

PublicKeyAuthOps ==
    {"authenticate_publickey_with", "authenticate_openssh_cert", "authenticate_publickey"}

\* C5 as stated: in that scenario the PublicKey step makes no authentication
\* call and raises no error, and Password is attempted exactly once.
C5_SkipsToPassword ==
    (C5_Scenario /\ pc = "done") =>
        /\ \A i \in 1..Len(log) : log[i].op \notin PublicKeyAuthOps
        /\ result.err \notin {"Russh", "Agent", "PrivateKey", "OpenSSHCert"}
        /\ Count("prompt", "password") = 1

\* C5, amended: in that scenario the PublicKey step makes no authentication
\* call, loads no key and prompts for nothing; unless the engine's
\* best_supported_rsa_hash query fails, which ends authenticate with that
\* error, the step raises no error and Password is attempted exactly once.
C5_SkipsToPasswordUnlessHashFails ==
    (C5_Scenario /\ pc = "done") =>
        /\ \A i \in 1..Len(log) :
              log[i].op \notin PublicKeyAuthOps \cup {"load_secret_key", "load_openssh_certificate"}
        /\ Count("prompt", "passphrase") = 0
        /\ IF Event("best_supported_rsa_hash", "", "Err") \in {log[i] : i \in 1..Len(log)}
           THEN result = Err("Russh", "") /\ Count("prompt", "password") = 0
           ELSE /\ result.err \in {"", "IO", "PasswordAuth"}
                /\ Count("prompt", "password") = 1
                /\ Count("authenticate_password", "") <= 1
                /\ log[Len(log)].op \in {"prompt", "authenticate_password"}

\* the scenario ran to the password call
C5_Witness ==
    /\ C5_Scenario
    /\ pc = "done"
    /\ Count("authenticate_password", "") = 1

\* the entries load_private_key made
KeyEvent(e) == e.op = "load_secret_key" \/ (e.op = "prompt" /\ e.arg = "passphrase")
KeyEvents == SelectSeq(log, KeyEvent)

DecryptionFailures ==
    Cardinality({i \in 1..Len(log) :
        log[i].op = "load_secret_key" /\ log[i].arg = "Some" /\ log[i].res = "Crypto"})

\* C6: load_private_key first loads without a passphrase and prompts only if
\* that load said the key is encrypted; it prompts at most 3 times, each
\* prompt followed by one load with the passphrase; the first successful load
\* ends it with the key; a failed prompt or a failure other than a decryption
\* error ends it with that error; the third decryption failure ends it with
\* the decryption error, and fewer than three leave it prompting.
C6_PassphraseLoop ==
    LET ev == KeyEvents
        n == Len(ev)
    IN  /\ n >= 1 => ev[1].op = "load_secret_key" /\ ev[1].arg = "None"
        /\ \A i \in 2..n : ev[i].op = "load_secret_key" =>
              ev[i].arg = "Some" /\ ev[i - 1] = Event("prompt", "passphrase", "Ok")
        /\ n >= 2 => ev[1].res = "KeyIsEncrypted"
        /\ Count("prompt", "passphrase") <= 3
        /\ \A i \in 1..n : (ev[i].op = "load_secret_key" /\ ev[i].res = "Ok") =>
              i = n /\ key = "Ok"
        /\ \A i \in 1..n : (ev[i].op = "prompt" /\ ev[i].res = "Err") =>
              i = n /\ key = "IO"
        /\ (n >= 1 /\ ev[1].res \notin {"Ok", "KeyIsEncrypted"}) =>
              n = 1 /\ key = ev[1].res
        /\ \A i \in 2..n :
              (ev[i].op = "load_secret_key" /\ ev[i].res \notin {"Ok", "Crypto"}) =>
                  i = n /\ key = ev[i].res
        /\ DecryptionFailures = 3 =>
              key = "Crypto" /\ ev[n].res = "Crypto" /\ result = Err("PrivateKey", "Crypto")
        /\ (DecryptionFailures < 3 /\ n >= 2 /\ ev[n].res = "Crypto") =>
              key = "unloaded" /\ pc = "passphrase"
        /\ (n = 1 /\ ev[1].res = "KeyIsEncrypted") => pc = "passphrase"

\* three passphrases were asked for and none decrypted the key
C6_Witness ==
    /\ Count("prompt", "passphrase") = 3
    /\ DecryptionFailures = 3
    /\ key = "Crypto"

(***************************************************************************)
(* The host-key store.  The file content is a sequence of symbols: words   *)
(* (addresses, algorithm names, base64 keys, the comment mark), the space  *)
(* and the line feed.  Two words with nothing between them read as one.    *)
(***************************************************************************)
SP == " "
NL == "\n"
HASH == "#"

\* the address of the server the handler was built for
ServerIp == "10.0.0.1"
Algorithms == {"ssh-ed25519", "ssh-rsa"}
KeyMaterial == {"AAAAC3", "AAAAB3"}
PublicKeys == [alg : Algorithms, key : KeyMaterial]

\* key.fingerprint(HashAlg::default()).to_string()
Fingerprint(k) ==
    IF k.key = "AAAAC3" THEN "SHA256:n4bQgYhM" ELSE "SHA256:Xk9zPq2R"

\* BufReader::lines(): the text between line feeds; a last line needs no
\* line feed, and nothing after the last line feed is no line
RECURSIVE SplitLines(_, _)
SplitLines(content, line) ==
    IF content = << >> THEN (IF line = << >> THEN << >> ELSE << line >>)
    ELSE IF Head(content) = NL THEN << line >> \o SplitLines(Tail(content), << >>)
    ELSE SplitLines(Tail(content), Append(line, Head(content)))

Lines(content) == SplitLines(content, << >>)

Whitespace == {SP, NL, "\t"}

\* str::trim_start
RECURSIVE TrimStart(_)
TrimStart(line) ==
    IF line # << >> /\ Head(line) \in Whitespace THEN TrimStart(Tail(line)) ELSE line

\* str::trim
RECURSIVE TrimEnd(_)
TrimEnd(line) ==
    IF line # << >> /\ line[Len(line)] \in Whitespace
    THEN TrimEnd(SubSeq(line, 1, Len(line) - 1))
    ELSE line

Trim(line) == TrimEnd(TrimStart(line))

\* the text of a run of symbols
RECURSIVE Text(_)
Text(symbols) == IF symbols = << >> THEN "" ELSE Head(symbols) \o Text(Tail(symbols))

\* str::split_whitespace().collect::<Vec<&str>>()
RECURSIVE SplitWhitespace(_, _)
SplitWhitespace(line, word) ==
    IF line = << >> THEN (IF word = "" THEN << >> ELSE << word >>)
    ELSE IF Head(line) \in Whitespace
    THEN (IF word = "" THEN << >> ELSE << word >>) \o SplitWhitespace(Tail(line), "")
    ELSE SplitWhitespace(Tail(line), word \o Head(line))

Parts(line) == SplitWhitespace(line, "")

\* line.starts_with('#') || line.is_empty(), after trim_start
Skipped(line) ==
    LET l == TrimStart(line) IN l = << >> \/ Head(l) = HASH

\* the fields taken one place too early
KeyMatchesShifted(parts, k) == parts[1] = k.alg /\ parts[2] = k.key

\* parts[1] == key_alg && parts[2] == key_b64
KeyMatches(parts, k) == parts[2] = k.alg /\ parts[3] = k.key

\* the scan that goes on past an entry for the address with another key
RECURSIVE ScanAnyMatch(_, _, _)
ScanAnyMatch(lines, ip, k) ==
    IF lines = << >> THEN "unknown"
    ELSE IF Skipped(Head(lines)) THEN ScanAnyMatch(Tail(lines), ip, k)
    ELSE LET parts == Parts(TrimStart(Head(lines)))
             rest == ScanAnyMatch(Tail(lines), ip, k)
         IN  IF Len(parts) >= 3 /\ parts[1] = ip
             THEN (IF KeyMatches(parts, k) \/ rest = "match" THEN "match" ELSE "changed")
             ELSE rest

\* the `while let Some(line)` scan of check_server_key: "match" when it
\* returns Ok(true), "changed" when it breaks with key_changed set,
\* "unknown" when the lines run out
RECURSIVE Scan(_, _, _)
Scan(lines, ip, k) ==
    IF lines = << >> THEN "unknown"
    ELSE IF Skipped(Head(lines)) THEN Scan(Tail(lines), ip, k)
    ELSE LET parts == Parts(TrimStart(Head(lines)))
         IN  IF Len(parts) >= 3 /\ parts[1] = ip
             THEN (IF KeyMatches(parts, k) THEN "match" ELSE "changed")
             ELSE Scan(Tail(lines), ip, k)

\* the empty file written whether or not the file exists
EnsuredTruncates(file) == [exists |-> TRUE, content |-> << >>]

\* the file after `if !self.known_hosts.exists() { .. fs::write(.., "") }`
Ensured(file) == IF file.exists THEN file ELSE [exists |-> TRUE, content |-> << >>]

\* format!("{} {} {}\n", self.server_ip, key.algorithm(), key.public_key_base64())
EntryBytes(ip, k) == << ip, SP, k.alg, SP, k.key, NL >>

\* the file opened for writing from its start
TrustHostOverwrites(file, ip, k) == [exists |-> TRUE, content |-> EntryBytes(ip, k)]

\* trust_host: open with create(true).append(true), write_all(entry)
TrustHost(file, ip, k) ==
    [exists |-> TRUE, content |-> file.content \o EntryBytes(ip, k)]

\* the new key recorded on a key change
HandleKeyChangedRecords(file, ip, k) ==
    [exists |-> TRUE, content |-> file.content \o EntryBytes(ip, k)]

\* handle_key_changed: the warning, Ok(false); the file is not opened
HandleKeyChanged(file, ip, k) == file

\* u8::to_ascii_lowercase over the letters the answers are spelled with
Lower(c) ==
    CASE c = "Y" -> "y" [] c = "E" -> "e" [] c = "S" -> "s"
      [] c = "N" -> "n" [] c = "O" -> "o"
      [] c = "SHA256:n4bQgYhM" -> "sha256:n4bqgyhm"
      [] c = "SHA256:Xk9zPq2R" -> "sha256:xk9zpq2r"
      [] OTHER -> c

RECURSIVE LowerText(_)
LowerText(symbols) ==
    IF symbols = << >> THEN "" ELSE Lower(Head(symbols)) \o LowerText(Tail(symbols))

\* the fingerprint compared without regard to case as well
TrustsIgnoringCase(line, fingerprint) ==
    LowerText(Trim(line)) \in {"y", "yes", Lower(fingerprint)}

\* input.eq_ignore_ascii_case("y") || input.eq_ignore_ascii_case("yes")
\*   || input.as_bytes() == fingerprint.as_bytes(), on input = line.trim()
Trusts(line, fingerprint) ==
    LET input == Trim(line)
    IN  \/ LowerText(input) = "y"
        \/ LowerText(input) = "yes"
        \/ Text(input) = fingerprint

\* the lines stdin may give to read_line: letters one symbol each, a
\* fingerprint one symbol; the empty line is the end of input
StdinLines ==
    { << "y", "e", "s", NL >>, << "Y", "E", "S", NL >>, << "y", NL >>,
      << SP, "y", "e", "s", SP, NL >>, << "n", "o", NL >>, << >>,
      << "SHA256:n4bQgYhM", NL >>, << "SHA256:Xk9zPq2R", NL >>,
      << "sha256:n4bqgyhm", NL >> }

\* what read_line gives: a line, or an I/O error
ReadError == << "Err" >>
StdinResults == StdinLines \cup {ReadError}

(***************************************************************************)
(* The files a call may find.                                              *)
(***************************************************************************)
StoreLines ==
    { << "10.0.0.1", SP, "ssh-ed25519", SP, "AAAAC3" >>,
      << "10.0.0.1", SP, "ssh-ed25519", SP, "AAAAB3" >>,
      << SP, SP, "10.0.0.1", SP, SP, "ssh-rsa", SP, "AAAAC3", SP, "root@host" >>,
      << "10.0.0.2", SP, "ssh-ed25519", SP, "AAAAC3" >>,
      << HASH, SP, "10.0.0.1", SP, "ssh-ed25519", SP, "AAAAC3" >>,
      << "10.0.0.1", SP, "ssh-ed25519" >>,
      << >> }

RECURSIVE JoinLines(_)
JoinLines(lines) ==
    IF lines = << >> THEN << >>
    ELSE IF Len(lines) = 1 THEN lines[1]
    ELSE lines[1] \o << NL >> \o JoinLines(Tail(lines))

\* up to MaxLines lines, the last one with or without its line feed
StoreContents ==
    LET texts == {JoinLines(ls) : ls \in SeqsUpTo(StoreLines, MaxLines)}
    IN  texts \cup {Append(t, NL) : t \in texts}

TrustInit ==
    /\ private_key = FALSE
    /\ openssh_cert = FALSE
    /\ agent_env = FALSE
    /\ pc = "idle"
    /\ allowed_methods = << >>
    /\ idx = 0
    /\ pub_keys = << >>
    /\ ret = "none"
    /\ attempts = 0
    /\ todo = 0
    /\ rounds = 0
    /\ key = "unloaded"
    /\ log = << >>
    /\ result = Pending
    /\ server_ip = ServerIp
    /\ known_hosts \in {[exists |-> FALSE, content |-> << >>]}
                       \cup {[exists |-> TRUE, content |-> c] : c \in StoreContents}
    /\ calls = 0
    /\ presented = [alg |-> "", key |-> ""]
    /\ stdin_line = << >>
    /\ prompted = FALSE
    /\ verdict = "none"
    /\ before = known_hosts
    /\ SessionIdle
    /\ ResolveIdle
    /\ DataIdle
    /\ StoreIdle
    /\ RaceIdle

(***************************************************************************)
(* ClientHandler::check_server_key, with handle_unknown_host,              *)
(* handle_key_changed and trust_host.  k is the key the server presents,   *)
(* input what read_line gives if the call comes to prompt.                 *)
(***************************************************************************)
CheckServerKey(k, input) ==
    /\ calls < MaxCalls
    /\ calls' = calls + 1
    /\ presented' = k
    /\ before' = known_hosts
    /\ LET file == Ensured(known_hosts)
           found == Scan(Lines(file.content), server_ip, k)
       IN  CASE found = "match" ->
                  /\ verdict' = "accept"
                  /\ known_hosts' = file
                  /\ prompted' = FALSE
                  /\ stdin_line' = << >>
             [] found = "changed" ->
                  /\ verdict' = "refuse"
                  /\ known_hosts' = HandleKeyChanged(file, server_ip, k)
                  /\ prompted' = FALSE
                  /\ stdin_line' = << >>
             [] found = "unknown" ->
                  /\ prompted' = TRUE
                  /\ stdin_line' = input
                  /\ IF input = ReadError
                     THEN /\ verdict' = "error"
                          /\ known_hosts' = file
                     ELSE IF Trusts(input, Fingerprint(k))
                     THEN /\ known_hosts' = TrustHost(file, server_ip, k)
                          /\ verdict' = "accept"
                     ELSE /\ known_hosts' = file
                          /\ verdict' = "refuse"
    /\ UNCHANGED << otherThanTrust, server_ip >>

\* stdin is read only by a call that prompts
WillPrompt(k) == Scan(Lines(known_hosts.content), server_ip, k) = "unknown"

TrustNext ==
    \E k \in PublicKeys :
        \E input \in (IF WillPrompt(k) THEN StdinResults ELSE {<< >>}) :
            CheckServerKey(k, input)

TrustSpec == TrustInit /\ [][TrustNext]_vars

(***************************************************************************)
(* Properties of ClientHandler::check_server_key.                          *)
(***************************************************************************)
\* the lines of a store that are entries for the address: not blank, not a
\* comment, at least three fields, the first one the address
EntriesFor(file, ip) ==
    LET lines == Lines(file.content)
    IN  {i \in 1..Len(lines) :
            /\ ~Skipped(lines[i])
            /\ Len(Parts(lines[i])) >= 3
            /\ Parts(lines[i])[1] = ip}

Known(file, ip) == EntriesFor(file, ip) # {}

\* the fields of the first entry for the address
FirstEntry(file, ip) ==
    LET first == CHOOSE i \in EntriesFor(file, ip) : \A j \in EntriesFor(file, ip) : i <= j
    IN  Parts(Lines(file.content)[first])

SameKey(parts, k) == parts[2] = k.alg /\ parts[3] = k.key

\* what the user typed: the line without its line feed
Answer(line) ==
    IF line # << >> /\ line[Len(line)] = NL
    THEN Text(SubSeq(line, 1, Len(line) - 1))
    ELSE Text(line)

Answered == calls >= 1 /\ prompted /\ stdin_line # ReadError

\* C7: when the first entry for the server address has the algorithm and key
\* material of the presented key, the call accepts without prompting and
\* leaves the store as it was.
C7_KnownHostAccepted ==
    ( /\ calls >= 1
      /\ Known(before, server_ip)
      /\ SameKey(FirstEntry(before, server_ip), presented) )
    => /\ verdict = "accept"
       /\ ~prompted
       /\ known_hosts = before

\* the first entry matched although a later entry for the address holds
\* another key
C7_Witness ==
    /\ calls >= 1
    /\ verdict = "accept"
    /\ Cardinality(EntriesFor(before, server_ip)) = 2
    /\ SameKey(FirstEntry(before, server_ip), presented)

\* C8: when the store holds the address under another algorithm or key
\* material (its first entry for the address is not the presented key), the
\* call refuses without prompting and the store is unchanged.
C8_KeyChangeRefused ==
    ( /\ calls >= 1
      /\ Known(before, server_ip)
      /\ ~SameKey(FirstEntry(before, server_ip), presented) )
    => /\ verdict = "refuse"
       /\ ~prompted
       /\ known_hosts = before

\* same algorithm, other key material
C8_Witness ==
    /\ calls >= 1
    /\ verdict = "refuse"
    /\ Known(before, server_ip)
    /\ FirstEntry(before, server_ip)[2] = presented.alg
    /\ FirstEntry(before, server_ip)[3] # presented.key

C10_OtherAnswersDecline ==
    ( /\ Answered
      /\ Answer(stdin_line) \notin {"yes", Fingerprint(presented)} )
    => /\ verdict = "refuse"
       /\ known_hosts.content = before.content

\* `y` and `yes` in every letter case
Affirmative ==
    {"y", "Y", "yes", "yeS", "yEs", "yES", "Yes", "YeS", "YEs", "YES"}

\* C10, amended: every answer that, trimmed of surrounding whitespace, is
\* neither `y` nor `yes` in some letter case nor the exact fingerprint is a
\* decline: the call refuses and appends nothing.
C10_NonAffirmativeDeclines ==
    ( /\ Answered
      /\ Text(Trim(stdin_line)) \notin Affirmative \cup {Fingerprint(presented)} )
    => /\ verdict = "refuse"
       /\ known_hosts.content = before.content

\* the fingerprint typed in lower case is declined
C10_Witness ==
    /\ Answered
    /\ verdict = "refuse"
    /\ presented.key = "AAAAC3"
    /\ Answer(stdin_line) = "sha256:n4bqgyhm"

C12_TrustedHostRemembered ==
    [][ ( /\ calls >= 1
          /\ prompted
          /\ verdict = "accept"
          /\ ~Known(before, server_ip)
          /\ calls' = calls + 1
          /\ presented' = presented )
        => /\ verdict' = "accept"
           /\ ~prompted'
           /\ known_hosts' = known_hosts ]_vars

(***************************************************************************)
(* The session on the channel: Connection::execute_command,                *)
(* Connection::start_interactive and run_session.                          *)
(*                                                                         *)
(* The remote side, local stdin, stdout and the terminal are the           *)
(* environment.  One pass of the `loop { tokio::select! { .. } }` of       *)
(* run_session is one step: the task serves the branch whose future        *)
(* completed, to the end of its handler, before it polls again.            *)
(***************************************************************************)
\* terminal::size(): (columns, rows)
Sizes == { << 80, 24 >>, << 120, 40 >> }
\* the bytes of a ChannelMsg::Data
Payloads == {"o1", "o2"}
\* the bytes of a non-empty read of stdin
Chunks == {"k1", "k2"}

\* Some(msg) of channel.wait(): Data, ExitStatus, any other ChannelMsg
ChannelMsgs ==
    {[type |-> "Data", data |-> p] : p \in Payloads}
        \cup {[type |-> "ExitStatus", data |-> ""], [type |-> "Other", data |-> ""]}
\* None of channel.wait(): the incoming stream has ended
StreamEnd == [type |-> "None", data |-> ""]
Incoming == ChannelMsgs \cup {StreamEnd}

\* a request made on the channel, with what it returned
Request(op, arg, res) == [op |-> op, arg |-> arg, res |-> res]

CallResults == {"Ok", "Err"}
\* stdout.write_all(&data) then stdout.flush()
WriteResults == {"Ok", "WriteErr", "FlushErr"}

\* the payload put before what was written
WriteAllFirst(out, data) == << data >> \o out

\* stdout.write_all(&data)
WriteAll(out, data) == Append(out, data)

\* the terminal left as it is when the function fails
DropOnBreakOnly(r) == r # Ok

\* Drop for RawModeGuard, run when run_session returns with r:
\* disable_raw_mode(); gives whether the terminal is still in raw mode
Drop(r) == FALSE

\* the next pass of the loop
Continue ==
    /\ spc' = spc
    /\ sresult' = sresult
    /\ raw_mode' = raw_mode

\* execute_command or start_interactive returns before run_session is called
Return(r) ==
    /\ spc' = "returned"
    /\ sresult' = r
    /\ raw_mode' = raw_mode

\* run_session returns, _guard goes out of scope, start_interactive returns
\* the same result
RunSessionReturn(r) ==
    /\ spc' = "returned"
    /\ sresult' = r
    /\ raw_mode' = Drop(r)

SessionInit ==
    /\ AuthIdle
    /\ TrustIdle
    /\ ResolveIdle
    /\ DataIdle
    /\ StoreIdle
    /\ RaceIdle
    /\ mode \in {"command", "interactive"}
    /\ spc = "open"
    /\ raw_mode = FALSE
    /\ was_raw = FALSE
    /\ stdin_closed = FALSE
    /\ width = 0
    /\ height = 0
    /\ received = << >>
    /\ written = << >>
    /\ sent = << >>
    /\ reads = 0
    /\ ticks = 0
    /\ outgoing = [kind |-> "None", bytes |-> ""]
    /\ term_size = << "None", << 0, 0 >> >>
    /\ pending = << >>
    /\ sresult = Pending

(***************************************************************************)
(* Connection::execute_command                                             *)
(***************************************************************************)
\* session.channel_open_session().await?; channel.exec(true, command).await?
ExecuteCommand(r) ==
    /\ mode = "command"
    /\ spc = "open"
    /\ CASE r = "Ok" ->
              /\ sent' = Append(sent, Request("exec", "", "Ok"))
              /\ spc' = "wait"
              /\ sresult' = sresult
              /\ raw_mode' = raw_mode
         [] r = "OpenErr" ->
              /\ sent' = sent
              /\ Return(Err("Russh", "channel_open_session"))
         [] r = "ExecErr" ->
              /\ sent' = Append(sent, Request("exec", "", "Err"))
              /\ Return(Err("Russh", "exec"))
    /\ UNCHANGED << mode, was_raw, stdin_closed, width, height, received, written,
                    reads, ticks, outgoing, term_size, pending >>
    /\ UNCHANGED otherThanSession

\* one pass of `while let Some(msg) = channel.wait().await`
ExecuteCommandWait(msg, wr) ==
    /\ mode = "command"
    /\ spc = "wait"
    /\ Len(received) < MaxMsgs
    /\ received' = Append(received, msg)
    /\ CASE msg.type = "Data" ->
              /\ written' = IF wr = "WriteErr" THEN written ELSE WriteAll(written, msg.data)
              /\ IF wr = "Ok" THEN Continue ELSE Return(Err("IO", "stdout"))
         [] msg.type = "ExitStatus" ->
              /\ written' = written
              /\ Return(Ok)
         [] msg.type = "Other" ->
              /\ written' = written
              /\ Continue
         [] msg.type = "None" ->
              /\ written' = written
              /\ Return(Ok)
    /\ UNCHANGED << mode, was_raw, stdin_closed, width, height, sent, reads, ticks,
                    outgoing, term_size, pending >>
    /\ UNCHANGED otherThanSession

(***************************************************************************)
(* Connection::start_interactive                                           *)
(***************************************************************************)
StartResults == {"Ok", "OpenErr", "SizeErr", "PtyErr", "ShellErr"}

\* channel_open_session, terminal::size, request_pty, request_shell; sz is
\* what terminal::size() gives
StartInteractive(r, sz) ==
    /\ mode = "interactive"
    /\ spc = "open"
    /\ CASE r = "Ok" ->
              /\ sent' = sent \o << Request("request_pty", sz, "Ok"),
                                    Request("request_shell", << >>, "Ok") >>
              /\ spc' = "run_session"
              /\ sresult' = sresult
              /\ raw_mode' = raw_mode
         [] r = "OpenErr" ->
              /\ sent' = sent
              /\ Return(Err("Russh", "channel_open_session"))
         [] r = "SizeErr" ->
              /\ sent' = sent
              /\ Return(Err("File", "terminal::size"))
         [] r = "PtyErr" ->
              /\ sent' = Append(sent, Request("request_pty", sz, "Err"))
              /\ Return(Err("Terminal", "request_pty"))
         [] r = "ShellErr" ->
              /\ sent' = sent \o << Request("request_pty", sz, "Ok"),
                                    Request("request_shell", << >>, "Err") >>
              /\ Return(Err("Terminal", "request_shell"))
    /\ UNCHANGED << mode, was_raw, stdin_closed, width, height, received, written,
                    reads, ticks, outgoing, term_size, pending >>
    /\ UNCHANGED otherThanSession

(***************************************************************************)
(* run_session                                                             *)
(***************************************************************************)
SetupResults == {"Ok", "FdErr", "SizeErr", "RawErr"}

\* AsyncFd::try_from(..)?, terminal::size()?, RawModeGuard::new()?: what
\* run_session does before the loop; sz is what terminal::size() gives
RunSession(r, sz) ==
    /\ spc = "run_session"
    /\ CASE r = "Ok" ->
              /\ width' = sz[1]
              /\ height' = sz[2]
              /\ raw_mode' = TRUE
              /\ was_raw' = TRUE
              /\ spc' = "loop"
              /\ sresult' = sresult
         [] r = "FdErr" ->
              /\ UNCHANGED << width, height, was_raw >>
              /\ Return(Err("IO", "AsyncFd"))
         [] r = "SizeErr" ->
              /\ UNCHANGED << width, height, was_raw >>
              /\ Return(Err("IO", "terminal::size"))
         [] r = "RawErr" ->
              /\ width' = sz[1]
              /\ height' = sz[2]
              /\ was_raw' = was_raw
              /\ Return(Err("IO", "enable_raw_mode"))
    /\ stdin_closed' = FALSE
    /\ UNCHANGED << mode, received, written, sent, reads, ticks, outgoing, term_size,
                    pending >>
    /\ UNCHANGED otherThanSession

\* Ok(0) of stdin.read: stdin_closed = true; _ = channel.eof().await
StdinEofBreaks(eof) ==
    /\ stdin_closed' = TRUE
    /\ sent' = Append(sent, Request("eof", << >>, eof))
    /\ RunSessionReturn(Ok)

\* the zero-length read that leaves the stdin branch open
StdinEofStaysOpen(eof) ==
    /\ stdin_closed' = stdin_closed
    /\ sent' = Append(sent, Request("eof", << >>, eof))
    /\ Continue

StdinEof(eof) ==
    /\ stdin_closed' = TRUE
    /\ sent' = Append(sent, Request("eof", << >>, eof))
    /\ Continue

\* Ok(n) of stdin.read: channel.data(&buf[..n]).await?
StdinBytes(chunk, res) ==
    /\ stdin_closed' = stdin_closed
    /\ sent' = Append(sent, Request("data", chunk, res))
    /\ IF res = "Ok" THEN Continue ELSE RunSessionReturn(Err("Russh", "data"))

\* Err(e) of stdin.read
StdinErr ==
    /\ stdin_closed' = stdin_closed
    /\ sent' = sent
    /\ RunSessionReturn(Err("IO", "stdin"))

\* the branch `outgoing = stdin.read(&mut buf), if !stdin_closed`
StdinRead(r, chunk, res) ==
    /\ spc = "loop"
    /\ ~stdin_closed
    /\ reads < MaxReads
    /\ reads' = reads + 1
    /\ outgoing' = [kind |-> r, bytes |-> chunk]
    /\ CASE r = "Eof" -> StdinEof(res)
         [] r = "Bytes" -> StdinBytes(chunk, res)
         [] r = "Err" -> StdinErr
    /\ UNCHANGED << mode, was_raw, width, height, received, written, ticks, term_size, pending >>
    /\ UNCHANGED otherThanSession

\* the end of file sent whether or not stdin is closed
EofOnExitStatusAlways(closed) == TRUE

\* no end of file sent on the exit status
EofOnExitStatusNever(closed) == FALSE

\* `if !stdin_closed` of the ExitStatus arm
EofOnExitStatus(closed) == ~closed

\* the branch `incoming = channel.wait()`
ChannelWait(msg, wr, eof) ==
    /\ spc = "loop"
    /\ Len(received) < MaxIncoming
    /\ received' = Append(received, msg)
    /\ CASE msg.type = "Data" ->
              /\ written' = IF wr = "WriteErr" THEN written ELSE WriteAll(written, msg.data)
              /\ sent' = sent
              /\ IF wr = "Ok" THEN Continue ELSE RunSessionReturn(Err("IO", "stdout"))
         [] msg.type = "ExitStatus" ->
              /\ written' = written
              /\ sent' = IF EofOnExitStatus(stdin_closed)
                         THEN Append(sent, Request("eof", << >>, eof))
                         ELSE sent
              /\ RunSessionReturn(Ok)
         [] msg.type = "Other" ->
              /\ written' = written
              /\ sent' = sent
              /\ Continue
         [] msg.type = "None" ->
              /\ written' = written
              /\ sent' = sent
              /\ RunSessionReturn(Ok)
    /\ UNCHANGED << mode, was_raw, stdin_closed, width, height, reads, ticks,
                    outgoing, term_size, pending >>
    /\ UNCHANGED otherThanSession

SizeResults == {<< "Ok", sz >> : sz \in Sizes} \cup {<< "Err", << 0, 0 >> >>}

\* the resize branch that sends without recording the dimensions
ResizeTickForgets(size, res) ==
    /\ spc = "loop"
    /\ ticks < MaxTicks
    /\ ticks' = ticks + 1
    /\ term_size' = size
    /\ IF size[1] = "Ok" /\ size[2] # << width, height >>
       THEN /\ UNCHANGED << width, height >>
            /\ sent' = Append(sent, Request("window_change", size[2], res))
            /\ IF res = "Ok" THEN Continue ELSE RunSessionReturn(Err("Russh", "window_change"))
       ELSE /\ UNCHANGED << width, height, sent >>
            /\ Continue
    /\ UNCHANGED << mode, was_raw, stdin_closed, received, written, reads, outgoing, pending >>
    /\ UNCHANGED otherThanSession

\* the branch `_ = resize_check.tick()`; size is what terminal::size() gives
ResizeTick(size, res) ==
    /\ spc = "loop"
    /\ ticks < MaxTicks
    /\ ticks' = ticks + 1
    /\ term_size' = size
    /\ IF size[1] = "Ok" /\ size[2] # << width, height >>
       THEN /\ width' = size[2][1]
            /\ height' = size[2][2]
            /\ sent' = Append(sent, Request("window_change", size[2], res))
            /\ IF res = "Ok" THEN Continue ELSE RunSessionReturn(Err("Russh", "window_change"))
       ELSE /\ UNCHANGED << width, height, sent >>
            /\ Continue
    /\ UNCHANGED << mode, was_raw, stdin_closed, received, written, reads, outgoing, pending >>
    /\ UNCHANGED otherThanSession

SessionNext ==
    \/ \E r \in {"Ok", "OpenErr", "ExecErr"} : ExecuteCommand(r)
    \/ \E msg \in Incoming :
          \E wr \in (IF msg.type = "Data" THEN WriteResults ELSE {"Ok"}) :
              ExecuteCommandWait(msg, wr)
    \/ \E r \in StartResults :
          \E sz \in (IF r \in {"Ok", "PtyErr", "ShellErr"} THEN Sizes ELSE {<< 0, 0 >>}) :
              StartInteractive(r, sz)
    \/ \E r \in SetupResults :
          \E sz \in (IF r \in {"Ok", "RawErr"} THEN Sizes ELSE {<< 0, 0 >>}) :
              RunSession(r, sz)
    \/ \E r \in {"Eof", "Bytes", "Err"} :
          \E chunk \in (IF r = "Bytes" THEN Chunks ELSE {""}) :
              \E res \in (IF r = "Err" THEN {"Ok"} ELSE CallResults) :
                  StdinRead(r, chunk, res)
    \/ \E msg \in Incoming :
          \E wr \in (IF msg.type = "Data" THEN WriteResults ELSE {"Ok"}) :
              \E eof \in (IF msg.type = "ExitStatus" /\ ~stdin_closed
                          THEN CallResults ELSE {"Ok"}) :
                  ChannelWait(msg, wr, eof)
    \/ \E size \in SizeResults :
          \E res \in (IF size[1] = "Ok" /\ size[2] # << width, height >>
                      THEN CallResults ELSE {"Ok"}) :
              ResizeTick(size, res)

SessionSpec == SessionInit /\ [][SessionNext]_vars

(***************************************************************************)
(* Properties of the session on the channel.                               *)
(***************************************************************************)
\* the places of the requests of one kind in the history of the channel
Requests(op) == {i \in 1..Len(sent) : sent[i].op = op}

\* the last thing channel.wait() returned
LastReceived == received[Len(received)]

\* the incoming messages have shown the remote closure
RemoteClosed == received # << >> /\ LastReceived.type \in {"ExitStatus", "None"}

\* the payloads of the Data messages among msgs, in order
RECURSIVE DataOf(_)
DataOf(msgs) ==
    IF msgs = << >> THEN << >>
    ELSE IF Head(msgs).type = "Data" THEN << Head(msgs).data >> \o DataOf(Tail(msgs))
    ELSE DataOf(Tail(msgs))

\* run_session has returned Ok(()) through one of the breaks of its loop
LoopExited == mode = "interactive" /\ spc = "returned" /\ sresult = Ok

\* C13: in every run of the relay loop the end of file is sent on the channel
\* at most once, however the stdin reads, incoming messages and resize ticks
\* interleave.
C13_EofAtMostOnce == Cardinality(Requests("eof")) <= 1

\* stdin reached its end, a tick was served, then the exit status came: the
\* one end of file is that of the stdin branch
C13_Witness ==
    /\ spc = "returned"
    /\ stdin_closed
    /\ ticks >= 1
    /\ RemoteClosed
    /\ LastReceived.type = "ExitStatus"
    /\ Cardinality(Requests("eof")) = 1

\* C14 as stated: whenever the loop exits on remote closure (ExitStatus or
\* the end of the incoming stream) before stdin reached its end, an end of
\* file has been sent on the channel.
C14_EofBeforeRemoteExit ==
    (LoopExited /\ ~stdin_closed) => Requests("eof") # {}

\* C14, amended: when the loop exits on an ExitStatus message before stdin
\* reached its end, channel.eof() was the last request made on the channel
\* before the exit; when it exits because the incoming stream ended, no end
\* of file has been sent.
C14_EofBeforeExitOnExitStatus ==
    (LoopExited /\ ~stdin_closed) =>
        IF LastReceived.type = "ExitStatus"
        THEN sent # << >> /\ sent[Len(sent)].op = "eof"
        ELSE Requests("eof") = {}

\* input was forwarded, then the exit status came while stdin was still open
C14_Witness ==
    /\ LoopExited
    /\ ~stdin_closed
    /\ LastReceived.type = "ExitStatus"
    /\ Requests("data") # {}
    /\ sent[Len(sent)].op = "eof"

\* C15: once run_session has put the terminal into raw mode, the terminal is
\* out of raw mode whenever run_session has returned, with Ok or with any
\* error; raw mode is on only while the loop runs.
C15_RawModeRestored ==
    /\ spc = "returned" => ~raw_mode
    /\ raw_mode => spc = "loop"
    /\ spc = "loop" => raw_mode

\* a return through the `?` of a failed write to stdout
C15_Witness ==
    /\ was_raw
    /\ spc = "returned"
    /\ sresult = Err("IO", "stdout")
    /\ ~raw_mode

\* C16: run_session returns Ok only after channel.wait() gave an ExitStatus
\* or the end of the stream; the pass that reads zero bytes from stdin leaves
\* the loop running, and after it Data is still written to stdout and resize
\* ticks are still served.
C16_OnlyRemoteClosureEnds ==
    /\ [](LoopExited => RemoteClosed)
    /\ []((spc = "loop" /\ stdin_closed /\ ticks < MaxTicks)
            => ENABLED (\E size \in SizeResults : ResizeTick(size, "Ok")))
    /\ [][ (spc = "loop" /\ ~stdin_closed /\ stdin_closed') => spc' = "loop" ]_vars
    /\ [][ ( /\ spc = "loop"
             /\ stdin_closed
             /\ received' # received
             /\ received'[Len(received')].type = "Data"
             /\ spc' = "loop" )
           => written' = Append(written, received'[Len(received')].data) ]_vars

\* after the end of stdin a window change was sent and Data was written, and
\* the loop is still running
C16_Witness ==
    /\ spc = "loop"
    /\ stdin_closed
    /\ Requests("eof") # {}
    /\ sent[Len(sent)].op = "window_change"
    /\ written # << >>

\* C17: in command mode the payloads of the Data messages are written to
\* stdout in the order they arrive; the first ExitStatus, or the end of the
\* stream, ends the function, so nothing is received or written after it;
\* stdin is never read and nothing but the exec request is made on the
\* channel.  (A failed write to stdout ends the function with that error.)
C17_CommandStreamsData ==
    mode = "command" =>
        /\ reads = 0
        /\ \A i \in 1..Len(sent) : sent[i].op = "exec"
        /\ \A i \in 1..(Len(received) - 1) : received[i].type \notin {"ExitStatus", "None"}
        /\ RemoteClosed => (spc = "returned" /\ sresult = Ok)
        /\ sresult.status # "Err" => written = DataOf(received)
        /\ sresult = Err("IO", "stdout") =>
              written \in {DataOf(received), DataOf(SubSeq(received, 1, Len(received) - 1))}

\* two different payloads written in the order of their arrival, then the
\* exit status
C17_Witness ==
    /\ mode = "command"
    /\ spc = "returned"
    /\ sresult = Ok
    /\ LastReceived.type = "ExitStatus"
    /\ Len(written) = 2
    /\ written = << received[1].data, received[2].data >>
    /\ written[1] # written[2]

(***************************************************************************)
(* resolve_server (src/src/lib.rs) over Config, ServerEntry, ScopedServer, *)
(* Server and Scope (src/src/storage/config.rs).                           *)
(*                                                                         *)
(* A string is the sequence of its characters.  An IndexMap is the         *)
(* sequence of its entries in insertion order, no key twice.  An Option    *)
(* field of a Scope holds its value or None.                               *)
(***************************************************************************)
None == "None"

\* the twelve fields of Scope
Fields ==
    {"user", "port", "known_hosts", "private_key", "openssh_cert", "kex", "alg",
     "cipher", "mac", "timeout", "interval", "retries"}

\* Scope::default(): every field None
DefaultScope == [f \in Fields |-> None]

\* a Scope with the fields of `present` set, each to a value that tells
\* where it comes from
ScopeOf(origin, present) ==
    [f \in Fields |-> IF f \in present THEN origin \o ":" \o f ELSE None]

\* Server { address, scope }
Server(address, scope) == [address |-> address, scope |-> scope]

\* ScopedServer::Address(address), ScopedServer::Override(Box<Server>)
Address(address) == [kind |-> "Address", server |-> Server(address, DefaultScope)]
Override(server) == [kind |-> "Override", server |-> server]

\* ServerEntry::Global(ScopedServer), ServerEntry::Scope(IndexMap<..>)
Global(scoped_server) ==
    [kind |-> "Global", server |-> scoped_server, servers |-> << >>]
Scope(scoped_servers) ==
    [kind |-> "Scope", server |-> Address(<< >>), servers |-> scoped_servers]

\* IndexMap::get / get_mut: the place of the key, 0 when it is absent
RECURSIVE IndexOf(_, _, _)
IndexOf(map, name, n) ==
    IF n > Len(map) THEN 0
    ELSE IF map[n].name = name THEN n
    ELSE IndexOf(map, name, n + 1)

Get(map, name) == IndexOf(map, name, 1)

(***************************************************************************)
(* regex_lite::Regex, for the part of its syntax the names below use:      *)
(* literal characters, `.`, `\d`, `\.`, the anchors `^` and `$`, and the   *)
(* repetitions `+` and `*`.  A group that is not closed, a repetition with *)
(* nothing before it and an unknown escape are errors of Regex::new.       *)
(***************************************************************************)
Digits == {"0", "1", "2", "3", "4", "5", "6", "7", "8", "9"}

Atom(kind, ch) == [kind |-> kind, ch |-> ch, rep |-> "one"]

Invalid == [ok |-> FALSE, atoms |-> << >>]

RECURSIVE Parse(_, _)
Parse(p, atoms) ==
    IF p = << >> THEN [ok |-> TRUE, atoms |-> atoms]
    ELSE LET c == Head(p)
         IN  CASE c = "\\" ->
                    IF Len(p) >= 2 /\ p[2] = "d"
                    THEN Parse(SubSeq(p, 3, Len(p)), Append(atoms, Atom("digit", "")))
                    ELSE IF Len(p) >= 2 /\ p[2] = "."
                    THEN Parse(SubSeq(p, 3, Len(p)), Append(atoms, Atom("lit", ".")))
                    ELSE Invalid
               [] c = "." -> Parse(Tail(p), Append(atoms, Atom("any", "")))
               [] c = "^" -> Parse(Tail(p), Append(atoms, Atom("start", "")))
               [] c = "$" -> Parse(Tail(p), Append(atoms, Atom("end", "")))
               [] c \in {"(", ")"} -> Invalid
               [] c \in {"+", "*"} ->
                    IF atoms = << >> \/ atoms[Len(atoms)].kind \in {"start", "end"}
                    THEN Invalid
                    ELSE LET last == atoms[Len(atoms)]
                             rep == IF c = "+" /\ last.rep = "one" THEN "plus" ELSE "star"
                         IN  Parse(Tail(p),
                                   [atoms EXCEPT ![Len(atoms)] = [last EXCEPT !.rep = rep]])
               [] OTHER -> Parse(Tail(p), Append(atoms, Atom("lit", c)))

\* Regex::new(pattern)
RegexNew(pattern) == Parse(pattern, << >>)

\* the atom takes the character
Fits(atom, c) ==
    CASE atom.kind = "lit" -> c = atom.ch
      [] atom.kind = "digit" -> c \in Digits
      [] atom.kind = "any" -> c # "\n"
      [] OTHER -> FALSE

\* the atoms match a prefix of s; atStart: s is the whole text
RECURSIVE Here(_, _, _)
Here(atoms, s, atStart) ==
    IF atoms = << >> THEN TRUE
    ELSE LET a == Head(atoms)
         IN  CASE a.kind = "start" -> atStart /\ Here(Tail(atoms), s, atStart)
               [] a.kind = "end" -> s = << >> /\ Here(Tail(atoms), s, atStart)
               [] a.rep = "one" ->
                    s # << >> /\ Fits(a, Head(s)) /\ Here(Tail(atoms), Tail(s), FALSE)
               [] a.rep = "plus" ->
                    /\ s # << >>
                    /\ Fits(a, Head(s))
                    /\ Here(<< [a EXCEPT !.rep = "star"] >> \o Tail(atoms), Tail(s), FALSE)
               [] a.rep = "star" ->
                    \/ Here(Tail(atoms), s, atStart)
                    \/ s # << >> /\ Fits(a, Head(s)) /\ Here(atoms, Tail(s), FALSE)

\* Regex::is_match(host): a match anywhere in the text
IsMatch(atoms, text) ==
    \E i \in 0..Len(text) : Here(atoms, SubSeq(text, i + 1, Len(text)), i = 0)

\* only the first `$h` replaced
RECURSIVE ReplaceFirst(_, _)
ReplaceFirst(address, to) ==
    IF address = << >> THEN << >>
    ELSE IF Len(address) >= 2 /\ address[1] = "$" /\ address[2] = "h"
    THEN to \o SubSeq(address, 3, Len(address))
    ELSE << Head(address) >> \o ReplaceFirst(Tail(address), to)

\* str::replace("$h", host): every occurrence, left to right, what is put in
\* is not searched again
RECURSIVE Replace(_, _)
Replace(address, to) ==
    IF address = << >> THEN << >>
    ELSE IF Len(address) >= 2 /\ address[1] = "$" /\ address[2] = "h"
    THEN to \o Replace(SubSeq(address, 3, Len(address)), to)
    ELSE << Head(address) >> \o Replace(Tail(address), to)

\* Server::apply_host_placeholder
ApplyHostPlaceholder(server, h) == [server EXCEPT !.address = Replace(server.address, h)]

\* the fields of the other Scope first
AddAssignOtherFirst(self, other) ==
    [f \in Fields |-> IF other[f] # None THEN other[f] ELSE self[f]]

\* impl AddAssign for Scope: *field = field.take().or(other.field)
AddAssign(self, other) ==
    [f \in Fields |-> IF self[f] # None THEN self[f] ELSE other[f]]

\* Server::apply_scope
ApplyScope(server, scope) == [server EXCEPT !.scope = AddAssign(server.scope, scope)]

\* impl From<ScopedServer> for Server
From(scoped_server) == scoped_server.server

\* mem::take of a ScopedServer and of a Scope: the default is left behind
TakenServer == Address(<< >>)
TakenScope == DefaultScope

Some(server) == [kind |-> "Some", server |-> server]
NoServer == [kind |-> "None"]
Error(e) == [kind |-> "Err", err |-> e]

\* a name that is not a regular expression passed over
RECURSIVE FirstMatchSkipsInvalid(_, _, _, _)
FirstMatchSkipsInvalid(map, h, n, globalOnly) ==
    IF n > Len(map) THEN 0
    ELSE IF globalOnly /\ map[n].entry.kind # "Global"
    THEN FirstMatchSkipsInvalid(map, h, n + 1, globalOnly)
    ELSE LET re == RegexNew(map[n].name)
         IN  IF re.ok /\ IsMatch(re.atoms, h) THEN n
             ELSE FirstMatchSkipsInvalid(map, h, n + 1, globalOnly)

\* the `for (pattern, ..) in ..iter_mut()` loops of resolve_server from entry
\* n on: the place of the first entry whose name matches the host, 0 when
\* none does, -1 when Regex::new fails on the way; only Global entries are
\* looked at when globalOnly
RECURSIVE FirstMatch(_, _, _, _)
FirstMatch(map, h, n, globalOnly) ==
    IF n > Len(map) THEN 0
    ELSE IF globalOnly /\ map[n].entry.kind # "Global"
    THEN FirstMatch(map, h, n + 1, globalOnly)
    ELSE LET re == RegexNew(map[n].name)
         IN  IF ~re.ok THEN -1
             ELSE IF IsMatch(re.atoms, h) THEN n
             ELSE FirstMatch(map, h, n + 1, globalOnly)

\* the patterns tried before the exact name
ScopedLookupPatternFirst(scoped_servers, h) ==
    LET m == FirstMatch(scoped_servers, h, 1, FALSE)
    IN  IF m > 0 THEN [at |-> m, exact |-> FALSE]
        ELSE IF Get(scoped_servers, h) # 0 THEN [at |-> Get(scoped_servers, h), exact |-> TRUE]
        ELSE [at |-> m, exact |-> FALSE]

\* the current scope never gives an entry
ScopedLookupNone(scoped_servers, h) == [at |-> 0, exact |-> FALSE]

\* lib.rs 143-157: the entry of the current scope for the host: the one named
\* like the host, else the first whose name matches it
ScopedLookup(scoped_servers, h) ==
    IF Get(scoped_servers, h) # 0
    THEN [at |-> Get(scoped_servers, h), exact |-> TRUE]
    ELSE [at |-> FirstMatch(scoped_servers, h, 1, FALSE), exact |-> FALSE]

\* lib.rs 168-182: the search among the global entries
GlobalSearch(h, cfg) ==
    LET g == Get(cfg.servers, h)
    IN  IF g # 0 /\ cfg.servers[g].entry.kind = "Global"
        THEN [result |-> Some(From(cfg.servers[g].entry.server)),
              config |-> [cfg EXCEPT !.servers[g].entry.server = TakenServer]]
        ELSE LET m == FirstMatch(cfg.servers, h, 1, TRUE)
             IN  IF m = -1 THEN [result |-> Error("Regex"), config |-> cfg]
                 ELSE IF m = 0 THEN [result |-> NoServer, config |-> cfg]
                 ELSE [result |-> Some(ApplyHostPlaceholder(
                                          From(cfg.servers[m].entry.server), h)),
                       config |-> [cfg EXCEPT !.servers[m].entry.server = TakenServer]]

\* the global entries searched when the current scope is not defined
ResolveIgnoresDangling(h, cfg, scope_name) ==
    LET s == Get(cfg.servers, scope_name)
        k == Get(cfg.scopes, scope_name)
    IN  IF s # 0 /\ cfg.servers[s].entry.kind = "Scope" /\ k # 0
        THEN LET scoped_servers == cfg.servers[s].entry.servers
                 found == ScopedLookup(scoped_servers, h)
             IN  IF found.at = -1 THEN [result |-> Error("Regex"), config |-> cfg]
                 ELSE IF found.at = 0 THEN GlobalSearch(h, cfg)
                 ELSE LET taken == From(scoped_servers[found.at].server)
                          server == IF found.exact THEN taken
                                    ELSE ApplyHostPlaceholder(taken, h)
                      IN  [result |-> Some(ApplyScope(server, cfg.scopes[k].scope)),
                           config |-> [cfg EXCEPT
                                         !.servers[s].entry.servers[found.at].server = TakenServer,
                                         !.scopes[k].scope = TakenScope]]
        ELSE GlobalSearch(h, cfg)

\* resolve_server(host, config, current_scope): what it returns and the
\* Config it leaves
Resolve(h, cfg, scope_name) ==
    LET s == Get(cfg.servers, scope_name)
    IN  IF s # 0 /\ cfg.servers[s].entry.kind = "Scope"
        THEN LET scoped_servers == cfg.servers[s].entry.servers
                 found == ScopedLookup(scoped_servers, h)
             IN  IF found.at = -1 THEN [result |-> Error("Regex"), config |-> cfg]
                 ELSE IF found.at = 0 THEN GlobalSearch(h, cfg)
                 ELSE LET taken == From(scoped_servers[found.at].server)
                          server == IF found.exact THEN taken
                                    ELSE ApplyHostPlaceholder(taken, h)
                          cfg1 == [cfg EXCEPT
                                     !.servers[s].entry.servers[found.at].server = TakenServer]
                          k == Get(cfg.scopes, scope_name)
                      IN  IF k = 0
                          THEN [result |-> Error("ScopeNotFound"), config |-> cfg1]
                          ELSE [result |-> Some(ApplyScope(server, cfg.scopes[k].scope)),
                                config |-> [cfg1 EXCEPT !.scopes[k].scope = TakenScope]]
        ELSE GlobalSearch(h, cfg)

(***************************************************************************)
(* The names, hosts and configurations resolve_server is run on.           *)
(***************************************************************************)
Prod == << "p", "r", "o", "d" >>

\* vm-42, vm-7, db
Hosts ==
    { << "v", "m", "-", "4", "2" >>, << "v", "m", "-", "7" >>, << "d", "b" >> }

\* vm-42   vm-\d+   v.*   (   db
Names ==
    { << "v", "m", "-", "4", "2" >>,
      << "v", "m", "-", "\\", "d", "+" >>,
      << "v", ".", "*" >>,
      << "(" >>,
      << "d", "b" >> }

\* vm-42   vm-\d+   (
GlobalNames ==
    { << "v", "m", "-", "4", "2" >>,
      << "v", "m", "-", "\\", "d", "+" >>,
      << "(" >> }

\* `$h.$h`, and `$h.internal` with a user and a port of its own
ScopedServers ==
    { Address(<< "$", "h", ".", "$", "h" >>),
      Override(Server(<< "$", "h", ".", "i", "n", "t", "e", "r", "n", "a", "l" >>,
                      ScopeOf("server", {"user", "port"}))) }

\* `$h.example`
GlobalServers == { Address(<< "$", "h", ".", "e", "x", "a", "m", "p", "l", "e" >>) }

\* the scopes named prod: with a user and a key, with a port and a key
ProdScopes ==
    { ScopeOf("prod", {"user", "private_key"}), ScopeOf("prod", {"port", "private_key"}) }

DistinctNames(map) == \A i, j \in 1..Len(map) : map[i].name = map[j].name => i = j

\* IndexMap<String, ScopedServer> of up to n entries
ScopedMaps(n) ==
    {m \in SeqsUpTo([name : Names, server : ScopedServers], n) : DistinctNames(m)}

\* the global entries of Config::servers, up to n of them
GlobalMaps(n) ==
    {m \in SeqsUpTo([name : GlobalNames, entry : {Global(g) : g \in GlobalServers}], n) :
        DistinctNames(m)}

\* the Configs a file can hold: global servers, the servers scoped to prod,
\* the scope prod defined or (a dangling reference) not
Configs ==
    { [default |-> << >>,
       scopes |-> sc,
       servers |-> g \o (IF m = << >> THEN << >> ELSE << [name |-> Prod, entry |-> Scope(m)] >>)] :
        sc \in {<< >>} \cup {<< [name |-> Prod, scope |-> p] >> : p \in ProdScopes},
        g \in GlobalMaps(MaxGlobals),
        m \in ScopedMaps(MaxEntries) }

ResolveInit ==
    /\ AuthIdle
    /\ TrustIdle
    /\ SessionIdle
    /\ DataIdle
    /\ StoreIdle
    /\ RaceIdle
    /\ host \in Hosts
    /\ config \in Configs
    /\ current_scope \in {Prod, << >>}
    /\ loaded = config
    /\ resolved = [kind |-> "Pending"]

\* lib.rs 47-48: resolve_server(&server_uri.address, &mut config, current_scope)
ResolveServer ==
    /\ resolved = [kind |-> "Pending"]
    /\ resolved' = Resolve(host, config, current_scope).result
    /\ config' = Resolve(host, config, current_scope).config
    /\ UNCHANGED << host, current_scope, loaded >>
    /\ UNCHANGED otherThanResolve

ResolveNext == ResolveServer

ResolveSpec == ResolveInit /\ [][ResolveNext]_vars

(***************************************************************************)
(* The merge of Scopes, through resolve_server: one server scoped to prod  *)
(* and named like the host, with any fields of its own, under a scope prod *)
(* with any fields.                                                        *)
(***************************************************************************)
\* which fields a Scope has: none, one, all but one, all
Presences ==
    {{}, Fields} \cup {{f} : f \in Fields} \cup {Fields \ {f} : f \in Fields}

MergeInit ==
    /\ AuthIdle
    /\ TrustIdle
    /\ SessionIdle
    /\ DataIdle
    /\ StoreIdle
    /\ RaceIdle
    /\ host = << "d", "b" >>
    /\ current_scope = Prod
    /\ \E a \in Presences, b \in Presences :
          config =
            [default |-> << >>,
             scopes |-> << [name |-> Prod, scope |-> ScopeOf("prod", b)] >>,
             servers |-> << [name |-> Prod,
                             entry |-> Scope(<< [name |-> host,
                                                 server |-> Override(Server(
                                                     << "1", "0", ".", "1" >>,
                                                     ScopeOf("server", a)))] >>)] >>]
    /\ loaded = config
    /\ resolved = [kind |-> "Pending"]

MergeSpec == MergeInit /\ [][ResolveNext]_vars

(***************************************************************************)
(* Properties of resolve_server.                                           *)
(***************************************************************************)
Done == resolved # [kind |-> "Pending"]

\* the servers scoped to the current scope, as loaded; none when the current
\* scope has no Scope entry
ScopedEntries ==
    LET s == Get(loaded.servers, current_scope)
    IN  IF s # 0 /\ loaded.servers[s].entry.kind = "Scope"
        THEN loaded.servers[s].entry.servers
        ELSE << >>

\* the places of the scoped entries named exactly like the host
ExactEntries == {i \in 1..Len(ScopedEntries) : ScopedEntries[i].name = host}

\* the scoped entry's name is a regular expression
ValidPattern(i) == RegexNew(ScopedEntries[i].name).ok

\* the places of the scoped entries whose name, a regular expression,
\* matches the host
MatchingEntries ==
    {i \in 1..Len(ScopedEntries) :
        ValidPattern(i) /\ IsMatch(RegexNew(ScopedEntries[i].name).atoms, host)}

FirstOf(S) == CHOOSE i \in S : \A j \in S : i <= j

\* the current scope is defined in the scope mapping
ScopeDefined == \E k \in 1..Len(loaded.scopes) : loaded.scopes[k].name = current_scope

ScopeFields ==
    loaded.scopes[CHOOSE k \in 1..Len(loaded.scopes) :
                     loaded.scopes[k].name = current_scope].scope

\* field by field: the entry's own value where it has one, else the scope's
Overridden(own, enclosing) ==
    [f \in Fields |-> IF own[f] # None THEN own[f] ELSE enclosing[f]]

\* the addresses of the scoped servers with the host put for `$h`
Substituted(address) ==
    IF address = << "$", "h", ".", "$", "h" >>
    THEN host \o << "." >> \o host
    ELSE host \o << ".", "i", "n", "t", "e", "r", "n", "a", "l" >>

\* C18: when the entries of the current scope hold one named exactly like
\* the host, the server returned is built from that entry, wherever it
\* stands and whatever other names match the host as patterns (valid or
\* not); with the current scope missing from the scope mapping the call ends
\* in ScopeNotFound instead, never in another entry's server.
C18_ExactNameWins ==
    (Done /\ ExactEntries # {}) =>
        LET e == ScopedEntries[FirstOf(ExactEntries)].server.server
        IN  IF ScopeDefined
            THEN resolved = [kind |-> "Some",
                             server |-> [address |-> e.address,
                                         scope |-> Overridden(e.scope, ScopeFields)]]
            ELSE resolved = [kind |-> "Err", err |-> "ScopeNotFound"]

\* the entry named like the host stands second, after a pattern that matches
\* the host as well
C18_Witness ==
    /\ Done
    /\ resolved.kind = "Some"
    /\ ExactEntries = {2}
    /\ 1 \in MatchingEntries
    /\ ScopedEntries[1].server # ScopedEntries[2].server
    /\ resolved.server.address = ScopedEntries[2].server.server.address

\* C19 as stated: with no scoped entry named exactly like the host (and the
\* scope defined), the first scoped entry, in insertion order, whose pattern
\* matches the host is chosen, and every `$h` of its address is replaced by
\* the host.
C19_FirstMatchChosen ==
    (Done /\ ExactEntries = {} /\ MatchingEntries # {} /\ ScopeDefined) =>
        LET e == ScopedEntries[FirstOf(MatchingEntries)].server.server
        IN  resolved = [kind |-> "Some",
                        server |-> [address |-> Substituted(e.address),
                                    scope |-> Overridden(e.scope, ScopeFields)]]

\* C19, amended: with no scoped entry named exactly like the host, the
\* scoped entries are tried as patterns in insertion order; an entry whose
\* name is not a regular expression, met before any match, ends the call
\* with that error; otherwise the first entry that matches is chosen and
\* every `$h` of its address is replaced by the host.
C19_FirstMatchUnlessInvalid ==
    (Done /\ ExactEntries = {} /\ MatchingEntries # {} /\ ScopeDefined) =>
        LET m == FirstOf(MatchingEntries)
            e == ScopedEntries[m].server.server
        IN  IF \E i \in 1..(m - 1) : ~ValidPattern(i)
            THEN resolved = [kind |-> "Err", err |-> "Regex"]
            ELSE resolved = [kind |-> "Some",
                             server |-> [address |-> Substituted(e.address),
                                         scope |-> Overridden(e.scope, ScopeFields)]]

\* the second entry matched after a first one that did not; its address
\* `$h.$h` came out as host.host
C19_Witness ==
    /\ Done
    /\ ExactEntries = {}
    /\ MatchingEntries = {2}
    /\ ValidPattern(1)
    /\ ScopedEntries[2].server.server.address = << "$", "h", ".", "$", "h" >>
    /\ resolved.kind = "Some"
    /\ resolved.server.address = host \o << "." >> \o host

\* C20: the Scope of a server resolved from a scoped entry holds, for each of
\* the twelve fields by itself, the entry's own value when the entry has the
\* field and the value of the enclosing named scope otherwise (None when
\* neither has it).
C20_MergePrefersOwnFields ==
    Done =>
        /\ resolved.kind = "Some"
        /\ \A f \in Fields :
              LET own == loaded.servers[1].entry.servers[1].server.server.scope[f]
                  enclosing == loaded.scopes[1].scope[f]
              IN  resolved.server.scope[f] = IF own # "None" THEN own ELSE enclosing

\* the entry has every field but the port, the scope has them all: the port
\* is the scope's, the user the entry's
C20_Witness ==
    /\ Done
    /\ resolved.kind = "Some"
    /\ resolved.server.scope["port"] = "prod:port"
    /\ resolved.server.scope["user"] = "server:user"
    /\ loaded.scopes[1].scope["user"] = "prod:user"

\* the places of the global entries of the server mapping, as loaded
GlobalEntries == {i \in 1..Len(loaded.servers) : loaded.servers[i].entry.kind = "Global"}

\* a global entry is named exactly like the host
ExactGlobals == {i \in GlobalEntries : loaded.servers[i].name = host}

InvalidEntries == {i \in 1..Len(ScopedEntries) : ~ValidPattern(i)}

InvalidGlobals == {i \in GlobalEntries : ~RegexNew(loaded.servers[i].name).ok}

MatchingGlobals ==
    {i \in GlobalEntries :
        /\ RegexNew(loaded.servers[i].name).ok
        /\ IsMatch(RegexNew(loaded.servers[i].name).atoms, host)}

\* the patterns of the current scope are tried: it has entries, none named
\* like the host
ScopedPatternsTried == Done /\ ScopedEntries # << >> /\ ExactEntries = {}

\* the patterns of the global entries are tried: the current scope gave
\* nothing and no global entry is named like the host
GlobalPatternsTried ==
    /\ Done
    /\ ExactEntries = {}
    /\ MatchingEntries = {}
    /\ InvalidEntries = {}
    /\ ExactGlobals = {}

RegexError == [kind |-> "Err", err |-> "Regex"]

U16_MAX == 65535

\* str::find(c): the place of the first c, 0 when there is none
Find(s, c) ==
    IF \E i \in 1..Len(s) : s[i] = c
    THEN CHOOSE i \in 1..Len(s) : s[i] = c /\ \A j \in 1..(i - 1) : s[j] # c
    ELSE 0

RFindFirst(s, c) == Find(s, c)

\* str::rfind(c): the place of the last c, 0 when there is none
RFind(s, c) ==
    IF \E i \in 1..Len(s) : s[i] = c
    THEN CHOOSE i \in 1..Len(s) : s[i] = c /\ \A j \in (i + 1)..Len(s) : s[j] # c
    ELSE 0

\* what split_once / rsplit_once give for a delimiter found at place i
SplitAt(s, i) ==
    IF i = 0 THEN [found |-> FALSE, head |-> << >>, tail |-> << >>]
    ELSE [found |-> TRUE, head |-> SubSeq(s, 1, i - 1), tail |-> SubSeq(s, i + 1, Len(s))]

\* str::split_once(c), str::rsplit_once(c)
SplitOnce(s, c) == SplitAt(s, Find(s, c))
RSplitOnce(s, c) == SplitAt(s, RFind(s, c))

DigitValue(c) ==
    CASE c = "0" -> 0 [] c = "1" -> 1 [] c = "2" -> 2 [] c = "3" -> 3 [] c = "4" -> 4
      [] c = "5" -> 5 [] c = "6" -> 6 [] c = "7" -> 7 [] c = "8" -> 8 [] c = "9" -> 9

\* the number a run of decimal digits writes
RECURSIVE DecimalValue(_)
DecimalValue(ds) ==
    IF ds = << >> THEN 0
    ELSE DecimalValue(SubSeq(ds, 1, Len(ds) - 1)) * 10 + DigitValue(ds[Len(ds)])

\* str::parse::<u16>(): an optional plus sign, then decimal digits writing a
\* number that fits sixteen bits; -1 for Err
ParseU16(s) ==
    LET ds == IF s # << >> /\ s[1] = "+" THEN Tail(s) ELSE s
    IN  IF ds = << >> \/ (\E i \in 1..Len(ds) : ds[i] \notin Digits) THEN -1
        ELSE IF DecimalValue(ds) > U16_MAX THEN -1
        ELSE DecimalValue(ds)

\* Ok(ServerUri { user, address, port }) and the errors of from_str
Uri(user, address, port) ==
    [kind |-> "Ok", user |-> user, address |-> address, port |-> port]
UriErr(e) == [kind |-> "Err", err |-> e]

\* host_port.strip_prefix('[') was Some(bracketed)
Bracketed(user, bracketed) ==
    LET close == SplitOnce(bracketed, "]")
        h == close.head
        rest == close.tail
    IN  IF ~close.found THEN UriErr("InvalidIPv6: missing closing bracket")
        ELSE IF h = << >> THEN UriErr("InvalidIPv6: empty brackets")
        ELSE IF rest = << >> THEN Uri(user, h, << >>)
        ELSE IF rest[1] = ":"
        THEN LET port_str == Tail(rest)
             IN  IF port_str = << >> THEN UriErr("PortMissing")
                 ELSE IF ParseU16(port_str) = -1 THEN UriErr("PortMissing")
                 ELSE Uri(user, h, << ParseU16(port_str) >>)
        ELSE UriErr("InvalidIPv6: unexpected characters")

\* the host_port that does not start with a bracket
Unbracketed(user, host_port) ==
    LET colon == RSplitOnce(host_port, ":")
    IN  IF colon.found
        THEN IF colon.head = << >> THEN UriErr("HostMissing")
             ELSE IF colon.tail = << >> THEN UriErr("PortMissing")
             ELSE IF ParseU16(colon.tail) # -1 /\ Find(colon.head, ":") = 0
             THEN Uri(user, colon.head, << ParseU16(colon.tail) >>)
             ELSE Uri(user, host_port, << >>)
        ELSE Uri(user, host_port, << >>)

\* ServerUri::from_str(input)
FromStr(text) ==
    LET at == SplitOnce(text, "@")
        user == IF at.found THEN << at.head >> ELSE << >>
        host_port == IF at.found THEN at.tail ELSE text
    IN  IF at.found /\ at.head = << >> THEN UriErr("UserMissing")
        ELSE IF host_port = << >> THEN UriErr("HostMissing")
        ELSE IF host_port[1] = "[" THEN Bracketed(user, Tail(host_port))
        ELSE Unbracketed(user, host_port)

(***************************************************************************)
(* The server arguments from_str is run on: every text of up to MaxUri     *)
(* characters of UriAlphabet, and some longer ones.                        *)
(***************************************************************************)
UriAlphabet == {"u", "h", "@", ":", "[", "]", "2"}

\* user@host:2222  u@[::2]:22  h:65535  h:65536  h:+22  h:022  h:-2  [h]:+2  [h]:2x
LongerArguments ==
    { << "u", "s", "e", "r", "@", "h", "o", "s", "t", ":", "2", "2", "2", "2" >>,
      << "u", "@", "[", ":", ":", "2", "]", ":", "2", "2" >>,
      << "h", ":", "6", "5", "5", "3", "5" >>,
      << "h", ":", "6", "5", "5", "3", "6" >>,
      << "h", ":", "+", "2", "2" >>,
      << "h", ":", "0", "2", "2" >>,
      << "h", ":", "-", "2" >>,
      << "[", "h", "]", ":", "+", "2" >>,
      << "[", "h", "]", ":", "2", "x" >> }

Arguments == SeqsUpTo(UriAlphabet, MaxUri) \cup LongerArguments

UriInit ==
    /\ AuthIdle
    /\ TrustIdle
    /\ SessionIdle
    /\ ResolveIdle
    /\ StoreIdle
    /\ RaceIdle
    /\ server_arg \in Arguments
    /\ server_uri = [kind |-> "Pending"]
    /\ conn_flags = [user |-> "None"]
    /\ env_user = "None"
    /\ conn_data = [kind |-> "Pending"]

\* parser.rs 19: clap reads the server argument with ServerUri::from_str
ParseServer ==
    /\ server_uri = [kind |-> "Pending"]
    /\ server_uri' = FromStr(server_arg)
    /\ UNCHANGED << server_arg, conn_flags, env_user, conn_data >>
    /\ UNCHANGED << otherThanData, resolveVars >>

UriNext == ParseServer

UriSpec == UriInit /\ [][UriNext]_vars

(***************************************************************************)
(* Properties of ServerUri::from_str.                                      *)
(***************************************************************************)
Parsed == server_uri # [kind |-> "Pending"]

Places(t, c) == {i \in 1..Len(t) : t[i] = c}
Least(S) == CHOOSE i \in S : \A j \in S : i <= j
Greatest(S) == CHOOSE i \in S : \A j \in S : j <= i

\* the text before the first @, when there is an @
UserPart(t) ==
    IF Places(t, "@") = {} THEN << >> ELSE << SubSeq(t, 1, Least(Places(t, "@")) - 1) >>

\* the text after the first @, the whole text when there is no @
HostPart(t) ==
    IF Places(t, "@") = {} THEN t ELSE SubSeq(t, Least(Places(t, "@")) + 1, Len(t))

\* a valid port: decimal digits, optionally after a plus sign, that write a
\* number below 2^16
ValidPort(p) ==
    LET ds == IF p # << >> /\ p[1] = "+" THEN Tail(p) ELSE p
    IN  /\ ds # << >>
        /\ \A i \in 1..Len(ds) : ds[i] \in Digits
        /\ DecimalValue(ds) < 65536

\* the text after the closing bracket of a bracketed host part
AfterBracket(hp) == SubSeq(hp, Least(Places(hp, "]")) + 1, Len(hp))

\* the inputs the claim has rejected
MustReject(t) ==
    LET hp == HostPart(t)
    IN  \/ 1 \in Places(t, "@")
        \/ hp = << >>
        \/ /\ hp # << >>
           /\ hp[1] = "["
           /\ \/ Places(hp, "]") = {}
              \/ Least(Places(hp, "]")) = 2
              \/ /\ Places(hp, "]") # {}
                 /\ AfterBracket(hp) # << >>
                 /\ ~(AfterBracket(hp)[1] = ":" /\ ValidPort(Tail(AfterBracket(hp))))
        \/ /\ hp # << >>
           /\ hp[1] # "["
           /\ Places(hp, ":") # {}
           /\ Greatest(Places(hp, ":")) \in {1, Len(hp)}

\* the ServerUri the claim has returned for the other inputs
MustReturn(t) ==
    LET hp == HostPart(t)
        colons == Places(hp, ":")
    IN  IF hp[1] = "["
        THEN Uri(UserPart(t),
                 SubSeq(hp, 2, Least(Places(hp, "]")) - 1),
                 IF AfterBracket(hp) = << >> THEN << >>
                 ELSE << DecimalValue(SelectSeq(AfterBracket(hp), LAMBDA c : c \in Digits)) >>)
        ELSE IF Cardinality(colons) = 1 /\ ValidPort(SubSeq(hp, Least(colons) + 1, Len(hp)))
        THEN Uri(UserPart(t),
                 SubSeq(hp, 1, Least(colons) - 1),
                 << DecimalValue(SelectSeq(SubSeq(hp, Least(colons) + 1, Len(hp)),
                                           LAMBDA c : c \in Digits)) >>)
        ELSE Uri(UserPart(t), hp, << >>)

\* C27: from_str rejects an empty user before @, an empty host, an empty
\* port after the colon, an unclosed or empty bracket pair and any text
\* after ] that is not a colon and a port; every other input gives the user
\* before the first @, the host without its brackets, and the port when the
\* text after the last colon is a valid port and the host has no other
\* colon, an unbracketed host with several colons being taken whole.
C27_UriParsed ==
    Parsed =>
        IF MustReject(server_arg) THEN server_uri.kind = "Err"
        ELSE server_uri = MustReturn(server_arg)

\* u@[::2]:22 has been parsed into user u, address ::2 and port 22
C27_Witness ==
    /\ server_arg = << "u", "@", "[", ":", ":", "2", "]", ":", "2", "2" >>
    /\ server_uri = Uri(<< << "u" >> >>, << ":", ":", "2" >>, << 22 >>)

(***************************************************************************)
(* ConnectionData::new (src/src/client/data.rs) and                        *)
(* handle_server_connection (src/src/lib.rs).                              *)
(*                                                                         *)
(* A user, a port and a path are held the way a Scope field holds them: a  *)
(* user by its text, a port by its decimal digits, a path by its text.     *)
(* remote_cmd is handed on as given and left out.                          *)
(***************************************************************************)
DEFAULT_SSH_PORT == 22

\* the text of a sequence of characters
RECURSIVE Str(_)
Str(chars) == IF chars = << >> THEN "" ELSE chars[1] \o Str(Tail(chars))

DigitChar(n) ==
    CASE n = 0 -> "0" [] n = 1 -> "1" [] n = 2 -> "2" [] n = 3 -> "3" [] n = 4 -> "4"
      [] n = 5 -> "5" [] n = 6 -> "6" [] n = 7 -> "7" [] n = 8 -> "8" [] n = 9 -> "9"

\* the decimal digits of a u16
RECURSIVE Decimal(_)
Decimal(n) == IF n < 10 THEN DigitChar(n) ELSE Decimal(n \div 10) \o DigitChar(n % 10)

\* uri.user and uri.port as the cascade takes them
UriUser(uri) == IF uri.user = << >> THEN None ELSE Str(uri.user[1])
UriPort(uri) == IF uri.port = << >> THEN None ELSE Decimal(uri.port[1])

\* Server::from_uri_address: mem::take of uri.address, Scope::default()
FromUriAddress(uri) == Server(uri.address, DefaultScope)

\* cascade!: None.or(source1.field).or(source2.field)...
RECURSIVE Cascade(_)
Cascade(sources) ==
    IF sources = << >> THEN None
    ELSE IF sources[1] # None THEN sources[1]
    ELSE Cascade(Tail(sources))

\* directories::BaseDirs::home_dir() and WORK_DIR
HomeDir == "/home/me"
WorkDir == HomeDir \o "/.seashell"

\* the panic of get_full_path
Panicked == "Each path in the configuration must be absolute or begin with ~/"

\* Path::is_absolute
IsAbsolute(path) == Len(path) >= 1 /\ SubSeq(path, 1, 1) = "/"

\* get_full_path: an absolute path as it is, a path under ~ joined to the home
\* directory, a panic for any other
GetFullPath(path) ==
    IF IsAbsolute(path) THEN path
    ELSE IF path = "~" THEN HomeDir \o "/"
    ELSE IF Len(path) >= 2 /\ SubSeq(path, 1, 2) = "~/"
    THEN HomeDir \o "/" \o SubSeq(path, 3, Len(path))
    ELSE Panicked

\* .map(get_full_path) on what the cascade found
MapFullPath(found) == IF found = None THEN None ELSE GetFullPath(found)

\* .unwrap_or(default)
UnwrapOr(found, default) == IF found # None THEN found ELSE default

\* the default of the user cascade is an argument of unwrap_or and so is
\* evaluated, with its `?`, before unwrap_or looks at what was found:
\* env::var("USER").ok().ok_or(ConnectionError::UserRequired)?
UserDefaultFails(found, env) == env = None

\* ConnectionData::new(uri, remote_cmd, flags, server, global)
New(uri, flags, server, global, env) ==
    LET scope == server.scope
        user == Cascade(<< UriUser(uri), flags.user, scope.user, global.user >>)
        port == Cascade(<< UriPort(uri), flags.port, scope.port, global.port >>)
        files == [f \in {"known_hosts", "private_key", "openssh_cert"} |->
                     MapFullPath(Cascade(<< flags[f], scope[f], global[f] >>))]
        rest == [f \in {"kex", "alg", "cipher", "mac", "timeout", "interval", "retries"} |->
                     Cascade(<< flags[f], scope[f], global[f] >>)]
    IN  IF UserDefaultFails(user, env) THEN Error("UserRequired")
        ELSE IF \E f \in DOMAIN files : files[f] = Panicked THEN [kind |-> "Panic"]
        ELSE [kind |-> "Ok",
              address |-> server.address,
              user |-> UnwrapOr(user, env),
              port |-> UnwrapOr(port, Decimal(DEFAULT_SSH_PORT)),
              known_hosts |-> UnwrapOr(files.known_hosts, WorkDir \o "/known_hosts"),
              private_key |-> files.private_key,
              openssh_cert |-> files.openssh_cert,
              kex |-> UnwrapOr(rest.kex, "default"),
              alg |-> UnwrapOr(rest.alg, "default"),
              cipher |-> UnwrapOr(rest.cipher, "default"),
              mac |-> UnwrapOr(rest.mac, "default"),
              timeout |-> rest.timeout,
              interval |-> rest.interval,
              retries |-> UnwrapOr(rest.retries, "default")]

(***************************************************************************)
(* The command lines, environments and configurations of a connection.     *)
(***************************************************************************)
\* a Scope with a user and a port (either may be None)
Params(user, port) == [DefaultScope EXCEPT !.user = user, !.port = port]

\* alice@db:2200   alice@db   db:2200   db   user@host:2222   host   @db
ServerArguments ==
    { << "a", "l", "i", "c", "e", "@", "d", "b", ":", "2", "2", "0", "0" >>,
      << "a", "l", "i", "c", "e", "@", "d", "b" >>,
      << "d", "b", ":", "2", "2", "0", "0" >>,
      << "d", "b" >>,
      << "u", "s", "e", "r", "@", "h", "o", "s", "t", ":", "2", "2", "2", "2" >>,
      << "h", "o", "s", "t" >>,
      << "@", "d", "b" >> }

\* --user bob, --port 2201, --private-key with each kind of path
ConnFlags ==
    { [Params(u, p) EXCEPT !.private_key = k] :
        u \in {None, "bob"}, p \in {None, "2201"},
        k \in {None, "/keys/id", "~/keys/id", "keys/id"} }

\* the entry db of the scope prod: an address, or a server with a user and a
\* port of its own
DbServers ==
    { Address(<< "1", "0", ".", "5" >>) } \cup
    { Override(Server(<< "1", "0", ".", "5" >>, Params(u, p))) :
        u \in {None, "carol"}, p \in {None, "2202"} }

\* the configurations: a default with a user, a port, both or absent; the
\* scope prod with a key of its own; db scoped to prod or no server at all
DataConfigs ==
    { [default |-> df,
       scopes |-> << [name |-> Prod,
                      scope |-> [DefaultScope EXCEPT !.known_hosts = "~/prod_hosts"]] >>,
       servers |-> sv] :
        df \in {<< >>} \cup {<< Params(u, p) >> : u \in {None, "dave"}, p \in {None, "2203"}},
        sv \in {<< >>} \cup {<< [name |-> Prod,
                                 entry |-> Scope(<< [name |-> << "d", "b" >>, server |-> s] >>)] >> :
                                s \in DbServers} }

DataInit ==
    /\ AuthIdle
    /\ TrustIdle
    /\ SessionIdle
    /\ StoreIdle
    /\ RaceIdle
    /\ server_arg \in ServerArguments
    /\ server_uri = [kind |-> "Pending"]
    /\ conn_flags \in ConnFlags
    /\ env_user \in {None, "me"}
    /\ conn_data = [kind |-> "Pending"]
    /\ host = << >>
    /\ config \in DataConfigs
    /\ current_scope \in {Prod, << >>}
    /\ loaded = config
    /\ resolved = [kind |-> "Pending"]

\* Config::default.unwrap_or_default()
UnwrapOrDefault(default) == IF default = << >> THEN DefaultScope ELSE default[1]

\* handle_server_connection(server_uri, remote_cmd, conn_flags), up to the
\* ConnectionData it hands to initiate_connection
HandleServerConnection ==
    /\ server_uri.kind = "Ok"
    /\ conn_data = [kind |-> "Pending"]
    /\ LET r == Resolve(server_uri.address, config, current_scope)
           found == r.result
           uri == IF found.kind = "None" THEN [server_uri EXCEPT !.address = << >>]
                  ELSE server_uri
           server == IF found.kind = "None" THEN FromUriAddress(server_uri)
                     ELSE found.server
       IN  /\ host' = server_uri.address
           /\ resolved' = found
           /\ config' = r.config
           /\ server_uri' = uri
           /\ conn_data' = IF found.kind = "Err" THEN found
                           ELSE New(uri, conn_flags, server,
                                    UnwrapOrDefault(r.config.default), env_user)
    /\ UNCHANGED << server_arg, conn_flags, env_user, current_scope, loaded >>
    /\ UNCHANGED otherThanData

DataNext ==
    \/ ParseServer
    \/ HandleServerConnection

DataSpec == DataInit /\ [][DataNext]_vars

(***************************************************************************)
(* Properties of ConnectionData::new.                                      *)
(***************************************************************************)
\* ConnectionData::new has been called and has returned or panicked
Built == conn_data # [kind |-> "Pending"] /\ resolved.kind \in {"Some", "None"}

\* the four sources of a connection: the URI, the flags, the scope of the
\* resolved server, the default of the configuration as it was loaded
ServerScope == IF resolved.kind = "Some" THEN resolved.server.scope ELSE DefaultScope
GlobalDefault == IF loaded.default = << >> THEN DefaultScope ELSE loaded.default[1]
UserSources == << UriUser(server_uri), conn_flags.user, ServerScope.user, GlobalDefault.user >>
PortSources == << UriPort(server_uri), conn_flags.port, ServerScope.port, GlobalDefault.port >>

Supplied(sources) == \E i \in 1..Len(sources) : sources[i] # None

\* the value of the first source that has one
FirstPresent(sources) ==
    sources[CHOOSE i \in 1..Len(sources) :
                sources[i] # None /\ \A j \in 1..(i - 1) : sources[j] = None]

\* every path of the flags, the server scope and the default is absolute or
\* starts with ~/
PathsWellFormed ==
    \A sc \in {conn_flags, ServerScope, GlobalDefault} :
        \A f \in {"known_hosts", "private_key", "openssh_cert"} :
            sc[f] # None => sc[f] \notin {"keys/id"}

\* C22: the user and the port of the connection are the first present value
\* in the order URI, flags, scope of the resolved server, global default.
C22_FirstPresentWins ==
    Built /\ PathsWellFormed =>
        /\ Supplied(UserSources) =>
              conn_data.kind = "Ok" /\ conn_data.user = FirstPresent(UserSources)
        /\ conn_data.kind = "Ok" /\ Supplied(PortSources) =>
              conn_data.port = FirstPresent(PortSources)

\* C23: construction fails with UserRequired only when none of the four
\* sources supplies a user and USER is unset; when a source supplies a user
\* it succeeds with that user, USER set or not.
C23_UserRequiredOnlyWithoutUser ==
    Built /\ PathsWellFormed =>
        /\ conn_data = Error("UserRequired") =>
              ~Supplied(UserSources) /\ env_user = None
        /\ Supplied(UserSources) =>
              conn_data.kind = "Ok" /\ conn_data.user = FirstPresent(UserSources)

\* C24: when resolve_server returns None the connection goes to the host of
\* the URI with the user and the port of the URI, and to port 22 when the
\* URI, the flags and the global default give no port.
C24_UnmatchedHostUsesUri ==
    Built /\ PathsWellFormed /\ resolved.kind = "None" =>
        /\ conn_data.kind = "Ok" \/ (~Supplied(UserSources) /\ env_user = None)
        /\ conn_data.kind = "Ok" =>
              /\ conn_data.address = FromStr(server_arg).address
              /\ FromStr(server_arg).user # << >> =>
                    conn_data.user = Str(FromStr(server_arg).user[1])
              /\ FromStr(server_arg).port # << >> =>
                    conn_data.port = Decimal(FromStr(server_arg).port[1])
              /\ (UriPort(server_uri) = None /\ conn_flags.port = None
                    /\ GlobalDefault.port = None) => conn_data.port = "22"

(***************************************************************************)
(* The configuration file: impl StorageProvider for Config                 *)
(* (src/src/storage/config.rs, src/src/storage/provider.rs).               *)
(*                                                                         *)
(* The YAML text is taken as the document it writes: a scalar with its     *)
(* type (a string, a number, a list of names) or a mapping, the entries in *)
(* the order written.  serde_yml writes a string that would read as a      *)
(* number in quotes, so a scalar keeps its type through the text.          *)
(***************************************************************************)
\* the characters of a text
Chars(text) == [i \in 1..Len(text) |-> SubSeq(text, i, i)]

Scalar(kind, text) == [kind |-> kind, text |-> text, map |-> << >>]
Mapping(entries) == [kind |-> "Map", text |-> "", map |-> entries]
Entry(k, v) == [key |-> k, value |-> v]

\* the fields of Scope in the order of the struct
FieldOrder ==
    << "user", "port", "known_hosts", "private_key", "openssh_cert", "kex", "alg",
       "cipher", "mac", "timeout", "interval", "retries" >>

\* what a field of Scope is written as: String and PathBuf as a string, u16,
\* u64 and usize as a number, Vec<..Name> as a list
FieldKind(f) ==
    CASE f \in {"user", "known_hosts", "private_key", "openssh_cert"} -> "Str"
      [] f \in {"port", "timeout", "interval", "retries"} -> "Int"
      [] f \in {"kex", "alg", "cipher", "mac"} -> "Seq"

\* #[skip_serializing_none] Serialize for Scope: the fields that are Some
SerializeScope(scope) ==
    LET present == SelectSeq(FieldOrder, LAMBDA f : scope[f] # None)
    IN  [i \in 1..Len(present) |->
            Entry(Chars(present[i]), Scalar(FieldKind(present[i]), scope[present[i]]))]

\* Serialize for Server: address, then the flattened scope
SerializeServer(server) ==
    << Entry(Chars("address"), Scalar("Str", Str(server.address))) >>
        \o SerializeScope(server.scope)

\* Serialize for the untagged ScopedServer: the content of the variant
SerializeScopedServer(scoped_server) ==
    IF scoped_server.kind = "Address" THEN Scalar("Str", Str(scoped_server.server.address))
    ELSE Mapping(SerializeServer(scoped_server.server))

\* Serialize for the untagged ServerEntry: the content of the variant
SerializeServerEntry(entry) ==
    IF entry.kind = "Global" THEN SerializeScopedServer(entry.server)
    ELSE Mapping([i \in 1..Len(entry.servers) |->
                     Entry(entry.servers[i].name,
                           SerializeScopedServer(entry.servers[i].server))])

\* Config::serialize: the flattened default, scopes, servers
Serialize(cfg) ==
    Mapping((IF cfg.default = << >> THEN << >> ELSE SerializeScope(cfg.default[1]))
        \o << Entry(Chars("scopes"),
                    Mapping([i \in 1..Len(cfg.scopes) |->
                                Entry(cfg.scopes[i].name,
                                      Mapping(SerializeScope(cfg.scopes[i].scope)))])),
              Entry(Chars("servers"),
                    Mapping([i \in 1..Len(cfg.servers) |->
                                Entry(cfg.servers[i].name,
                                      SerializeServerEntry(cfg.servers[i].entry))])) >>)

\* the place of a key in a mapping, 0 when it is absent
KeyAt(entries, k) ==
    IF \E i \in 1..Len(entries) : entries[i].key = k
    THEN CHOOSE i \in 1..Len(entries) : entries[i].key = k
    ELSE 0

Read(v) == [ok |-> TRUE, value |-> v]
Mismatch == [ok |-> FALSE, value |-> << >>]

\* the keys the fields of Scope are written under
FieldKeys == [f \in Fields |-> Chars(f)]

\* Deserialize for Scope from the entries of a mapping: a key that is no
\* field is passed over, a field of another type is an error
DeserializeScope(entries) ==
    LET at == [f \in Fields |-> KeyAt(entries, FieldKeys[f])]
    IN  IF \A f \in Fields : at[f] # 0 => entries[at[f]].value.kind = FieldKind(f)
        THEN Read([f \in Fields |-> IF at[f] = 0 THEN None ELSE entries[at[f]].value.text])
        ELSE Mismatch

\* Deserialize for Server: a mapping with a string under address; what is
\* left goes to the flattened scope
DeserializeServer(node) ==
    LET a == KeyAt(node.map, Chars("address"))
        scope == DeserializeScope(node.map)
    IN  IF node.kind = "Map" /\ a # 0 /\ node.map[a].value.kind = "Str" /\ scope.ok
        THEN Read(Server(Chars(node.map[a].value.text), scope.value))
        ELSE Mismatch

\* Deserialize for the untagged ScopedServer: Address(String) is tried
\* first, then Override(Box<Server>)
DeserializeScopedServer(node) ==
    LET server == DeserializeServer(node)
    IN  IF node.kind = "Str" THEN Read(Address(Chars(node.text)))
        ELSE IF server.ok THEN Read(Override(server.value))
        ELSE Mismatch

\* Deserialize for the untagged ServerEntry: Global(ScopedServer) is tried
\* first, then Scope(IndexMap<String, ScopedServer>)
DeserializeServerEntry(node) ==
    LET global == DeserializeScopedServer(node)
        scoped == [i \in 1..Len(node.map) |-> DeserializeScopedServer(node.map[i].value)]
    IN  IF global.ok THEN Read(Global(global.value))
        ELSE IF node.kind = "Map" /\ \A i \in 1..Len(node.map) : scoped[i].ok
        THEN Read(Scope([i \in 1..Len(node.map) |->
                            [name |-> node.map[i].key, server |-> scoped[i].value]]))
        ELSE Mismatch

\* empty_scope_is_none: Some(s) with s.is_empty() becomes None
EmptyScopeIsNone(default) ==
    IF default # << >> /\ default[1] = DefaultScope THEN << >> ELSE default

\* Config::deserialize: scopes and servers are required; the other keys go
\* to the flattened Option<Scope>, which is None when they do not make a
\* Scope
Deserialize(doc) ==
    LET sc == KeyAt(doc.map, Chars("scopes"))
        sv == KeyAt(doc.map, Chars("servers"))
        scopes == doc.map[sc].value
        servers == doc.map[sv].value
        default == DeserializeScope(doc.map)
        scope == [i \in 1..Len(scopes.map) |-> DeserializeScope(scopes.map[i].value.map)]
        entry == [i \in 1..Len(servers.map) |-> DeserializeServerEntry(servers.map[i].value)]
    IN  IF /\ doc.kind = "Map"
           /\ sc # 0
           /\ sv # 0
           /\ scopes.kind = "Map"
           /\ servers.kind = "Map"
           /\ \A i \in 1..Len(scopes.map) : scopes.map[i].value.kind = "Map" /\ scope[i].ok
           /\ \A i \in 1..Len(servers.map) : entry[i].ok
        THEN Read([default |-> EmptyScopeIsNone(IF default.ok THEN << default.value >>
                                                 ELSE << >>),
                   scopes |-> [i \in 1..Len(scopes.map) |->
                                 [name |-> scopes.map[i].key, scope |-> scope[i].value]],
                   servers |-> [i \in 1..Len(servers.map) |->
                                  [name |-> servers.map[i].key, entry |-> entry[i].value]]])
        ELSE Mismatch

\* Config::default()
EmptyConfig == [default |-> << >>, scopes |-> << >>, servers |-> << >>]

\* StorageProvider::save_to_file
SaveToFile(cfg) == [exists |-> TRUE, document |-> Serialize(cfg)]

\* StorageProvider::load_from_file: a missing file is written with the
\* default and the default returned
LoadFromFile(file) ==
    LET read == Deserialize(file.document)
    IN  IF ~file.exists
        THEN [err |-> "Ok", config |-> EmptyConfig, file |-> SaveToFile(EmptyConfig)]
        ELSE IF read.ok THEN [err |-> "Ok", config |-> read.value, file |-> file]
        ELSE [err |-> "Yaml", config |-> EmptyConfig, file |-> file]

(***************************************************************************)
(* The subcommands (execute_subcommand, src/src/lib.rs) over Config        *)
(* (src/src/storage/config.rs) and Context (src/src/storage/context.rs).   *)
(* Each loads the configuration file, runs and, when it succeeds, saves.   *)
(* The context file holds current_scope.                                   *)
(***************************************************************************)
\* what a method of Config returns: Ok with the Config, or an error; and
\* the current scope it leaves in the context file
Returned(e, cfg, scope_name) == [err |-> e, config |-> cfg, context |-> scope_name]

\* IndexMap::insert: in the place of the key when it is there, at the end
\* otherwise
Insert(map, item) ==
    IF Get(map, item.name) = 0 THEN Append(map, item)
    ELSE [map EXCEPT ![Get(map, item.name)] = item]

\* IndexMap::swap_remove of the entry at place i: the last entry takes its
\* place
SwapRemoveAt(map, i) ==
    [j \in 1..(Len(map) - 1) |-> IF j = i THEN map[Len(map)] ELSE map[j]]

\* IndexMap::swap_remove(key), nothing when the key is absent
SwapRemove(map, name) ==
    IF Get(map, name) = 0 THEN map ELSE SwapRemoveAt(map, Get(map, name))

\* Server::is_only_address
IsOnlyAddress(server) == server.scope = DefaultScope

\* the ScopedServer add_server and add_global_server make of a Server
Scoped(server) ==
    IF IsOnlyAddress(server) THEN Address(server.address) ELSE Override(server)

\* Config::add_global_server
AddGlobalServer(cfg, scope_name, name, server) ==
    IF Get(cfg.servers, name) # 0
    THEN Returned(IF cfg.servers[Get(cfg.servers, name)].entry.kind = "Global"
                  THEN "ServerExists" ELSE "ScopeExists", cfg, scope_name)
    ELSE Returned("Ok",
                  [cfg EXCEPT !.servers =
                      Insert(cfg.servers, [name |-> name, entry |-> Global(Scoped(server))])],
                  scope_name)

\* Config::add_server
AddServer(cfg, scope_name, name, server, global) ==
    LET s == Get(cfg.servers, scope_name)
        isScope == s # 0 /\ cfg.servers[s].entry.kind = "Scope"
        scope_servers == IF isScope THEN cfg.servers[s].entry.servers ELSE << >>
    IN  IF global \/ scope_name = << >> THEN AddGlobalServer(cfg, scope_name, name, server)
        ELSE IF isScope /\ Get(scope_servers, name) # 0
        THEN Returned("ServerExists", cfg, scope_name)
        ELSE IF ~isScope /\ Get(cfg.scopes, scope_name) = 0
        THEN Returned("ScopeNotFound", cfg, scope_name)
        ELSE Returned("Ok",
                      [cfg EXCEPT !.servers =
                          Insert(cfg.servers,
                                 [name |-> scope_name,
                                  entry |-> Scope(Insert(scope_servers,
                                                         [name |-> name,
                                                          server |-> Scoped(server)]))])],
                      scope_name)

\* Config::add_scope
AddScope(cfg, scope_name, name, scope) ==
    IF Get(cfg.scopes, name) # 0 THEN Returned("ScopeExists", cfg, scope_name)
    ELSE Returned("Ok",
                  [cfg EXCEPT !.scopes = Insert(cfg.scopes, [name |-> name, scope |-> scope])],
                  scope_name)

RemoveScopedKeeps(servers, name) == servers

\* Config::remove, 207: self.servers.swap_remove(&scope_name)
RemoveScoped(servers, name) == SwapRemove(servers, name)

\* Config::remove with a scope: the scope, the entry of servers under its
\* name, and the current scope when it is the one removed
RemoveScope(cfg, scope_name, name) ==
    IF Get(cfg.scopes, name) = 0 THEN Returned("ScopeNotFound", cfg, scope_name)
    ELSE Returned("Ok",
                  [cfg EXCEPT !.scopes = SwapRemove(cfg.scopes, name),
                              !.servers = RemoveScoped(cfg.servers, name)],
                  IF scope_name = name THEN << >> ELSE scope_name)

\* Config::remove with a server
RemoveServer(cfg, scope_name, name) ==
    LET s == Get(cfg.servers, scope_name)
        left == SwapRemove(cfg.servers[s].entry.servers, name)
    IN  IF scope_name = << >>
        THEN IF Get(cfg.servers, name) # 0
             THEN Returned("Ok", [cfg EXCEPT !.servers = SwapRemove(cfg.servers, name)],
                           scope_name)
             ELSE Returned("ServerNotFound", cfg, scope_name)
        ELSE IF s # 0 /\ cfg.servers[s].entry.kind = "Scope"
        THEN IF Get(cfg.servers[s].entry.servers, name) = 0
             THEN Returned("ServerNotFound", cfg, scope_name)
             ELSE IF left = << >>
             THEN Returned("Ok", [cfg EXCEPT !.servers = SwapRemove(cfg.servers, scope_name)],
                           scope_name)
             ELSE Returned("Ok", [cfg EXCEPT !.servers[s].entry.servers = left], scope_name)
        ELSE Returned("ServerNotFound", cfg, scope_name)

\* Config::set_default
SetDefault(cfg, scope_name, scope) ==
    Returned("Ok", [cfg EXCEPT !.default = << scope >>], scope_name)

\* the scope made current without a look at the scope mapping
UseScopeUnchecked(cfg, scope_name, name) == Returned("Ok", cfg, name)

\* CliSubcommand::Use: Config::check_scope, then Context::change_scope
UseScope(cfg, scope_name, name) ==
    IF Get(cfg.scopes, name) = 0 THEN Returned("ScopeNotFound", cfg, scope_name)
    ELSE Returned("Ok", cfg, name)

(***************************************************************************)
(* The names and values the subcommands are given.                         *)
(***************************************************************************)
Db == << "d", "b" >>
AddressName == << "a", "d", "d", "r", "e", "s", "s" >>

ScopeNames == {Prod, Db}
ServerNames == {Db, AddressName}

\* a plain address, and an address with --user carol
NewServers ==
    { Server(<< "1", "0", ".", "5" >>, DefaultScope),
      Server(<< "1", "0", ".", "5" >>, Params("carol", None)) }

\* no flag at all, and --user dave --port 2203
NewScopes == { DefaultScope, Params("dave", "2203") }

\* a configuration written earlier: the scope prod and db scoped to it
StartConfig ==
    [default |-> << >>,
     scopes |-> << [name |-> Prod, scope |-> Params("dave", "2203")] >>,
     servers |-> << [name |-> Prod,
                     entry |-> Scope(<< [name |-> Db,
                                         server |-> Address(<< "1", "0", ".", "5" >>)] >>)] >>]

\* another one: `add-server db 10.5` with no scope current, then
\* `add-scope db`: a global server and a scope of one name
NamesakeConfig ==
    [default |-> << >>,
     scopes |-> << [name |-> Db, scope |-> Params("dave", "2203")] >>,
     servers |-> << [name |-> Db, entry |-> Global(Address(<< "1", "0", ".", "5" >>))] >>]

StoreInit ==
    /\ AuthIdle
    /\ TrustIdle
    /\ SessionIdle
    /\ DataIdle
    /\ RaceIdle
    /\ host = << >>
    /\ config = EmptyConfig
    /\ loaded = EmptyConfig
    /\ resolved = [kind |-> "Pending"]
    /\ \/ config_file = [exists |-> FALSE, document |-> << >>] /\ current_scope = << >>
       \/ config_file = SaveToFile(StartConfig) /\ current_scope \in {<< >>, Prod}
       \/ config_file = SaveToFile(NamesakeConfig) /\ current_scope \in {<< >>, Db}
    /\ outcome = [cmd |-> "none", result |-> "Ok", n |-> 0]

\* one arm of execute_subcommand: Config::load_from_file()?, the method,
\* and save_to_file() when the method returned Ok and the arm saves; l is
\* what load_from_file returns for the file as it is
Execute(l, cmd, saves, Method(_)) ==
    /\ outcome.n < MaxCommands
    /\ LET r == Method(l.config)
       IN  IF l.err # "Ok"
           THEN /\ outcome' = [cmd |-> cmd, result |-> l.err, n |-> outcome.n + 1]
                /\ UNCHANGED << config, loaded, current_scope, config_file >>
           ELSE /\ loaded' = l.config
                /\ config' = r.config
                /\ current_scope' = r.context
                /\ config_file' = IF r.err = "Ok" /\ saves THEN SaveToFile(r.config) ELSE l.file
                /\ outcome' = [cmd |-> cmd, result |-> r.err, n |-> outcome.n + 1]
    /\ UNCHANGED << host, resolved >>
    /\ UNCHANGED otherThanStore

\* seashell use <scope>
Use(l, name) ==
    Execute(l, "Use", FALSE, LAMBDA cfg : UseScope(cfg, current_scope, name))

\* seashell add-server <name> <address> [flags] [--global]
ExecuteAddServer(l, name, server, global) ==
    Execute(l, "AddServer", TRUE, LAMBDA cfg : AddServer(cfg, current_scope, name, server, global))

\* seashell add-scope <name> [flags]
ExecuteAddScope(l, name, scope) ==
    Execute(l, "AddScope", TRUE, LAMBDA cfg : AddScope(cfg, current_scope, name, scope))

\* seashell rm <server>, seashell rm --scope <scope>
RmServer(l, name) ==
    Execute(l, "RmServer", TRUE, LAMBDA cfg : RemoveServer(cfg, current_scope, name))
RmScope(l, name) ==
    Execute(l, "RmScope", TRUE, LAMBDA cfg : RemoveScope(cfg, current_scope, name))

\* seashell default [flags]
Default(l, scope) ==
    Execute(l, "Default", TRUE, LAMBDA cfg : SetDefault(cfg, current_scope, scope))

StoreNext ==
    LET l == LoadFromFile(config_file)
    IN
    \/ \E name \in ScopeNames : Use(l, name)
    \/ \E name \in ServerNames, server \in NewServers, global \in BOOLEAN :
          ExecuteAddServer(l, name, server, global)
    \/ \E name \in ScopeNames, scope \in NewScopes : ExecuteAddScope(l, name, scope)
    \/ \E name \in ServerNames \cup ScopeNames : RmServer(l, name)
    \/ \E name \in ScopeNames : RmScope(l, name)
    \/ \E scope \in NewScopes : Default(l, scope)

StoreSpec == StoreInit /\ [][StoreNext]_vars

(***************************************************************************)
(* Properties of the subcommands and of the configuration file.            *)
(***************************************************************************)
\* every key of servers that holds ServerEntry::Scope is a key of scopes
ScopedKeysDefined(cfg) ==
    \A i \in 1..Len(cfg.servers) :
        cfg.servers[i].entry.kind = "Scope" => Get(cfg.scopes, cfg.servers[i].name) # 0

\* the last subcommand went through a method of Config that returned Ok
Ran(cmd) == outcome.cmd = cmd /\ outcome.result = "Ok"

\* C25: after any sequence of add_scope, add_server, remove and set_default
\* from a configuration whose scoped entries all stand under defined scopes,
\* every key of servers that holds a scoped entry is a key of scopes: in the
\* Config the method returned, and in the Config the file reads back as.
C25_ScopedKeysDefined ==
    /\ ScopedKeysDefined(config)
    /\ config_file.exists /\ Deserialize(config_file.document).ok =>
          ScopedKeysDefined(Deserialize(config_file.document).value)

\* remove has just removed a scope that had servers scoped to it
C25_Witness ==
    /\ Ran("RmScope")
    /\ \E i \in 1..Len(loaded.servers) :
          /\ loaded.servers[i].entry.kind = "Scope"
          /\ Get(config.scopes, loaded.servers[i].name) = 0
          /\ Get(config.servers, loaded.servers[i].name) = 0

\* the Config a reload is to give: the same, but for a default with every
\* field absent, which is no default
Collapsed(cfg) ==
    IF cfg.default = << DefaultScope >> THEN [cfg EXCEPT !.default = << >>] ELSE cfg

\* the last subcommand has saved `config` to the file
Saved == outcome.result = "Ok" /\ outcome.cmd \in {"AddServer", "AddScope", "RmServer", "RmScope", "Default"}

\* C26: deserializing a serialized Config gives an equal Config, the same
\* default, scopes and server entries in the same order, except that a
\* default with every field absent comes back as no default.
C26_RoundTrip ==
    Saved =>
        /\ Deserialize(config_file.document).ok
        /\ Deserialize(config_file.document).value = Collapsed(config)
(***************************************************************************)
(* The stdin branch and the resize branch of the relay loop.               *)
(***************************************************************************)

\* this step is a pass of the stdin branch
StdinStep == reads' = reads + 1

\* this step has made one more request on the channel
SentOne == Len(sent') = Len(sent) + 1 /\ SubSeq(sent', 1, Len(sent)) = sent

\* the request this step has made
LastSent == sent'[Len(sent')]

\* C28: in the relay loop a zero-length read of stdin sends the end of file
\* on the channel and closes the stdin branch; from then on stdin is not read
\* and no data is sent on the channel until the function returns; every
\* non-empty read before that is forwarded as exactly one data request with
\* the bytes read, and data is sent for no other reason.
C28_StdinForwarded ==
    /\ [][ (StdinStep /\ outgoing'.kind = "Eof") =>
              /\ stdin_closed'
              /\ SentOne
              /\ LastSent.op = "eof" ]_vars
    /\ [][ stdin_closed =>
              /\ stdin_closed'
              /\ ~StdinStep
              /\ outgoing' = outgoing
              /\ Requests("data")' = Requests("data")
              /\ SentOne => LastSent.op # "data" ]_vars
    /\ [][ (StdinStep /\ outgoing'.kind = "Bytes") =>
              /\ ~stdin_closed
              /\ SentOne
              /\ LastSent.op = "data"
              /\ LastSent.arg = outgoing'.bytes ]_vars
    /\ [][ (sent' # sent /\ LastSent.op = "data") =>
              (StdinStep /\ outgoing'.kind = "Bytes") ]_vars
    /\ [][ (StdinStep /\ outgoing'.kind = "Err") => sent' = sent ]_vars

\* a non-empty read was forwarded, the next read was empty and sent the end
\* of file, and the loop went on to take a message from the channel
C28_Witness ==
    /\ mode = "interactive"
    /\ spc = "loop"
    /\ stdin_closed
    /\ reads = 2
    /\ outgoing.kind = "Eof"
    /\ Len(sent) = 4
    /\ sent[3].op = "data" /\ sent[3].res = "Ok"
    /\ sent[4].op = "eof"
    /\ received # << >>
\* this step is a pass of the resize branch
TickStep == ticks' = ticks + 1

\* the last known dimensions of run_session
LastKnown == << width, height >>

\* this step has sent a window-change notification
SentWindowChange == SentOne /\ LastSent.op = "window_change"

\* the window-change notifications sent so far, in order
RECURSIVE WindowChanges(_)
WindowChanges(reqs) ==
    IF reqs = << >> THEN << >>
    ELSE IF Head(reqs).op = "window_change"
         THEN << Head(reqs).arg >> \o WindowChanges(Tail(reqs))
         ELSE WindowChanges(Tail(reqs))

\* C29: a pass of the resize branch sends a window-change notification if
\* and only if terminal::size() succeeded and gave dimensions other than the
\* last known ones; the notification carries the dimensions read and they
\* become the last known ones; a failed read, like an unchanged size, sends
\* nothing and leaves the last known dimensions as they were; no other step
\* sends a notification, and two consecutive notifications never carry the
\* same dimensions.
C29_WindowChangeOnlyOnChange ==
    /\ [][ TickStep =>
              /\ SentWindowChange <=> (term_size'[1] = "Ok" /\ term_size'[2] # LastKnown)
              /\ SentWindowChange =>
                    /\ LastSent.arg = term_size'[2]
                    /\ LastKnown' = term_size'[2]
              /\ ~SentWindowChange => (sent' = sent /\ LastKnown' = LastKnown)
              /\ term_size'[1] = "Err" => (sent' = sent /\ LastKnown' = LastKnown) ]_vars
    /\ [][ (sent' # sent /\ LastSent.op = "window_change") => TickStep ]_vars
    /\ [](\A i \in 1..(Len(WindowChanges(sent)) - 1) :
             WindowChanges(sent)[i] # WindowChanges(sent)[i + 1])
    /\ [](WindowChanges(sent) # << >> /\ spc = "loop" =>
             LastKnown = WindowChanges(sent)[Len(WindowChanges(sent))])

\* two resize ticks each found a new size and sent it
C29_Witness ==
    /\ mode = "interactive"
    /\ spc = "loop"
    /\ ticks = 2
    /\ Len(WindowChanges(sent)) = 2
    /\ LastKnown = WindowChanges(sent)[2]
(***************************************************************************)
(* The relay loop of run_session with the remote side apart from the       *)
(* task: the remote delivers messages into the channel, and a pass of      *)
(* `tokio::select!` serves one branch whose future is ready.  The state    *)
(* of run_session is kept (stdin_closed, width, height, where it stands,   *)
(* what it returned) with the last result of stdin.read and of             *)
(* terminal::size(); the histories of requests, messages and writes are    *)
(* not extended here, so that stdin and the resize timer may go on for     *)
(* ever.                                                                   *)
(***************************************************************************)
\* the remote puts one more message into the channel; nothing comes after
\* the end of the stream
RemoteDelivers(msg) ==
    /\ mode = "interactive"
    /\ spc \in {"run_session", "loop"}
    /\ Len(pending) < MaxPending
    /\ pending # << >> => pending[Len(pending)].type # "None"
    /\ pending' = Append(pending, msg)
    /\ UNCHANGED << mode, spc, raw_mode, was_raw, stdin_closed, width, height,
                    received, written, sent, reads, ticks, outgoing, term_size,
                    sresult >>
    /\ UNCHANGED otherThanSession

\* the loop that goes on after the remote closure
BreakIgnored == Continue

\* `break` of the loop, then Ok(())
Break == RunSessionReturn(Ok)

\* the branch `outgoing = stdin.read(&mut buf), if !stdin_closed`
SelectStdin(r, chunk, res) ==
    /\ spc = "loop"
    /\ ~stdin_closed
    /\ outgoing' = [kind |-> r, bytes |-> chunk]
    /\ CASE r = "Eof" ->
              /\ stdin_closed' = TRUE
              /\ Continue
         [] r = "Bytes" ->
              /\ stdin_closed' = stdin_closed
              /\ IF res = "Ok" THEN Continue ELSE RunSessionReturn(Err("Russh", "data"))
         [] r = "Err" ->
              /\ stdin_closed' = stdin_closed
              /\ RunSessionReturn(Err("IO", "stdin"))
    /\ UNCHANGED << mode, was_raw, width, height, received, written, sent, reads,
                    ticks, term_size, pending >>
    /\ UNCHANGED otherThanSession

\* the branch `incoming = channel.wait()`, ready when a message is pending
SelectIncoming(wr) ==
    /\ spc = "loop"
    /\ pending # << >>
    /\ pending' = Tail(pending)
    /\ CASE Head(pending).type = "Data" ->
              IF wr = "Ok" THEN Continue ELSE RunSessionReturn(Err("IO", "stdout"))
         [] Head(pending).type = "ExitStatus" -> Break
         [] Head(pending).type = "Other" -> Continue
         [] Head(pending).type = "None" -> Break
    /\ UNCHANGED << mode, was_raw, stdin_closed, width, height, received, written,
                    sent, reads, ticks, outgoing, term_size >>
    /\ UNCHANGED otherThanSession

\* the branch `_ = resize_check.tick()`
SelectTick(size, res) ==
    /\ spc = "loop"
    /\ term_size' = size
    /\ IF size[1] = "Ok" /\ size[2] # << width, height >>
       THEN /\ width' = size[2][1]
            /\ height' = size[2][2]
            /\ IF res = "Ok" THEN Continue ELSE RunSessionReturn(Err("Russh", "window_change"))
       ELSE /\ UNCHANGED << width, height >>
            /\ Continue
    /\ UNCHANGED << mode, was_raw, stdin_closed, received, written, sent, reads,
                    ticks, outgoing, pending >>
    /\ UNCHANGED otherThanSession

RelayInit == SessionInit /\ mode = "interactive"

\* a pass of select! that serves the channel branch
ServeIncoming == \E wr \in WriteResults : SelectIncoming(wr)

RelayNext ==
    \/ \E r \in StartResults :
          \E sz \in (IF r \in {"Ok", "PtyErr", "ShellErr"} THEN Sizes ELSE {<< 0, 0 >>}) :
              StartInteractive(r, sz)
    \/ \E r \in SetupResults :
          \E sz \in (IF r \in {"Ok", "RawErr"} THEN Sizes ELSE {<< 0, 0 >>}) :
              RunSession(r, sz)
    \/ \E msg \in Incoming : RemoteDelivers(msg)
    \/ \E r \in {"Eof", "Bytes", "Err"} :
          \E chunk \in (IF r = "Bytes" THEN Chunks ELSE {""}) :
              \E res \in (IF r = "Bytes" THEN CallResults ELSE {"Ok"}) :
                  SelectStdin(r, chunk, res)
    \/ ServeIncoming
    \/ \E size \in SizeResults :
          \E res \in (IF size[1] = "Ok" /\ size[2] # << width, height >>
                      THEN CallResults ELSE {"Ok"}) :
              SelectTick(size, res)

\* select! without `biased;` polls its branches in random order, so a branch
\* that stays ready is served in the end: weak fairness of the channel branch
RelaySpec == RelayInit /\ [][RelayNext]_vars /\ WF_vars(ServeIncoming)

\* the remote has delivered an ExitStatus or the end of the stream
RemoteClosing ==
    \E i \in 1..Len(pending) : pending[i].type \in {"ExitStatus", "None"}

\* C30: with select! serving the channel branch fairly, once the remote has
\* delivered an ExitStatus message or the end of the incoming stream the
\* relay loop returns, even when every read of stdin gives bytes and every
\* resize tick fires.
C30_RelayTerminates == (spc = "loop" /\ RemoteClosing) ~> (spc = "returned")

\* stdin had just produced bytes and was still open, a resize tick had been
\* served, and the loop returned Ok on the remote closure
C30_Witness ==
    /\ spc = "returned"
    /\ sresult = Ok
    /\ was_raw
    /\ ~stdin_closed
    /\ outgoing.kind = "Bytes"
    /\ term_size[1] = "Ok"
(***************************************************************************)
(* The current scope before the global entries.                            *)
(***************************************************************************)
\* the place of the scoped entry that stands for the host: the one named like
\* it, else the first whose pattern matches it; 0 when there is none
ChosenEntry ==
    IF ExactEntries # {} THEN FirstOf(ExactEntries)
    ELSE IF MatchingEntries # {} THEN FirstOf(MatchingEntries)
    ELSE 0

\* the server built from the chosen scoped entry under the current scope
BuiltFromChosen ==
    LET e == ScopedEntries[ChosenEntry].server.server
    IN  [kind |-> "Some",
         server |-> [address |-> IF ExactEntries # {} THEN e.address
                                 ELSE Substituted(e.address),
                     scope |-> Overridden(e.scope, ScopeFields)]]

\* a name that is not a regular expression is tried before the chosen entry
InvalidBeforeChosen ==
    ExactEntries = {} /\ \E i \in InvalidEntries : i < ChosenEntry

\* the call returned a server built from a global entry
FromGlobal ==
    /\ resolved.kind = "Some"
    /\ \E i \in GlobalEntries :
          LET g == loaded.servers[i].entry.server.server
          IN  resolved.server.address \in
                  {g.address, host \o << ".", "e", "x", "a", "m", "p", "l", "e" >>}

\* C31 as stated: if any entry of the current scope (the scope being defined)
\* matches the host, by its exact name or as a pattern, resolve_server
\* returns the server built from that entry, even when a global entry is
\* named exactly like the host; the global entries give the result only when
\* the current scope has no matching entry.
C31_ScopedMatchWins ==
    /\ (Done /\ ChosenEntry # 0 /\ ScopeDefined) => resolved = BuiltFromChosen
    /\ (Done /\ FromGlobal) => ChosenEntry = 0

\* C31, amended: if an entry of the current scope (the scope being defined)
\* matches the host, resolve_server returns the server built from that entry,
\* even when a global entry is named exactly like the host, unless no entry
\* is named like the host and a name that is not a regular expression stands
\* before the first match: then the call ends with that error.  The global
\* entries give the result only when the current scope has no matching entry
\* and no name that is not a regular expression was tried.
C31_ScopedMatchWinsUnlessInvalid ==
    /\ (Done /\ ChosenEntry # 0 /\ ScopeDefined) =>
          IF InvalidBeforeChosen THEN resolved = RegexError
          ELSE resolved = BuiltFromChosen
    /\ (Done /\ FromGlobal) =>
          /\ ChosenEntry = 0
          /\ ExactEntries = {} => InvalidEntries = {}

\* a pattern of the current scope matched the host while a global entry was
\* named exactly like it: the scoped entry's server came back
C31_Witness ==
    /\ Done
    /\ ScopeDefined
    /\ ExactGlobals # {}
    /\ ExactEntries = {}
    /\ ChosenEntry # 0
    /\ resolved = BuiltFromChosen
    /\ ~FromGlobal
\* the current scope has servers scoped to it and no definition in the scope
\* mapping
Dangling == ScopedEntries # << >> /\ ~ScopeDefined

ScopeNotFoundError == [kind |-> "Err", err |-> "ScopeNotFound"]

\* C32 as stated: with a dangling current scope the resolution of every host
\* ends in ScopeNotFound.
C32_DanglingIsError == (Done /\ Dangling) => resolved = ScopeNotFoundError

\* C32, amended: with a dangling current scope the resolution ends in
\* ScopeNotFound for every host that an entry of the scope stands for (by
\* its exact name, or as the first matching pattern with no invalid name
\* before it) and never in a global entry's server for such a host; a host
\* that no scoped entry matches is looked up among the global entries as
\* usual (a server, None, or the error of an invalid name).
C32_DanglingIsErrorOnMatch ==
    (Done /\ Dangling) =>
        IF ChosenEntry # 0
        THEN resolved = (IF InvalidBeforeChosen THEN RegexError ELSE ScopeNotFoundError)
        ELSE /\ resolved # ScopeNotFoundError
             /\ InvalidEntries # {} => resolved = RegexError
             /\ resolved.kind = "Some" => FromGlobal
             /\ (InvalidEntries = {} /\ ExactGlobals # {}) => FromGlobal
             /\ (InvalidEntries = {} /\ GlobalEntries = {}) => resolved = NoServer

\* the scoped entry that matches the host would have been used and a global
\* entry is named like the host: the call ends in ScopeNotFound
C32_Witness ==
    /\ Done
    /\ Dangling
    /\ ChosenEntry # 0
    /\ ExactGlobals # {}
    /\ resolved = ScopeNotFoundError
(***************************************************************************)
(* The file paths of ConnectionData::new.                                  *)
(***************************************************************************)
FileFields == {"known_hosts", "private_key", "openssh_cert"}

\* the sources of a file path: the flags, the scope of the resolved server,
\* the default of the configuration
FileSources(f) == << conn_flags[f], ServerScope[f], GlobalDefault[f] >>

\* the path starts with the home-directory shorthand
UnderHome(path) == Len(path) >= 2 /\ SubSeq(path, 1, 2) = "~/"

\* the fields whose path, the first present one, is relative and not under ~/
OtherRelative ==
    {f \in FileFields :
        /\ Supplied(FileSources(f))
        /\ ~IsAbsolute(FirstPresent(FileSources(f)))
        /\ ~UnderHome(FirstPresent(FileSources(f)))}

\* C33: ConnectionData::new keeps an absolute path as it is, expands a path
\* that starts with ~/ against the home directory, and for any other
\* relative path returns an error to its caller instead of connection
\* parameters.
C33_PathsExpandedOrError ==
    Built =>
        /\ OtherRelative # {} => conn_data.kind = "Err"
        /\ conn_data.kind = "Ok" =>
              \A f \in FileFields :
                  Supplied(FileSources(f)) =>
                      LET path == FirstPresent(FileSources(f))
                      IN  /\ IsAbsolute(path) => conn_data[f] = path
                          /\ UnderHome(path) =>
                                conn_data[f] = HomeDir \o "/" \o SubSeq(path, 3, Len(path))
(***************************************************************************)
(* Several entries for one address in the store.                           *)
(***************************************************************************)
\* the entries of the store, as the call found it, that hold the address
\* with the algorithm and key material presented
EntriesOfKey ==
    {i \in EntriesFor(before, server_ip) :
        SameKey(Parts(Lines(before.content)[i]), presented)}

\* an entry for the address with another algorithm or key stands before
\* every entry that holds the presented key
OtherKeyFirst == \A i \in EntriesOfKey : \E j \in EntriesFor(before, server_ip) : j < i

\* C34 as stated: check_server_key accepts without prompting whenever the
\* store holds at least one entry whose address, algorithm and key material
\* equal the presented ones, whatever entries for the address precede it.
C34_AnyMatchingEntryAccepts ==
    (calls >= 1 /\ EntriesOfKey # {}) => (verdict = "accept" /\ ~prompted)

\* C34, amended: with an entry in the store that equals the presented
\* address, algorithm and key material, the call accepts without prompting
\* when that entry is the first one for the address, lines for other
\* addresses, comments and blank lines before it notwithstanding; when an
\* entry for the address with another algorithm or key stands before it, the
\* call refuses without prompting and leaves the store as it was.
C34_FirstEntryForAddressDecides ==
    (calls >= 1 /\ EntriesOfKey # {}) =>
        /\ ~prompted
        /\ known_hosts = before
        /\ verdict = IF OtherKeyFirst THEN "refuse" ELSE "accept"

\* the store held the address under ssh-ed25519 and then under the presented
\* ssh-rsa key: the call refused
C34_Witness ==
    /\ calls >= 1
    /\ presented.alg = "ssh-rsa"
    /\ EntriesOfKey = {2}
    /\ EntriesFor(before, server_ip) = {1, 2}
    /\ FirstEntry(before, server_ip)[2] = "ssh-ed25519"
    /\ verdict = "refuse"
(***************************************************************************)
(* Two client processes in ClientHandler::check_server_key on one store.   *)
(* Each system call on the file is a step of its own: the test             *)
(* `known_hosts.exists()`, `fs::write(.., "")`, the open and read of the   *)
(* scan, the prompt, and the append of trust_host.  Nothing locks the      *)
(* file, so the steps of the two processes interleave freely.              *)
(***************************************************************************)
Procs == {"p1", "p2"}

\* the stores the processes may find: none, or one that holds another host
RaceStores ==
    { [exists |-> FALSE, content |-> << >>],
      [exists |-> TRUE,
       content |-> << "10.0.0.2", SP, "ssh-ed25519", SP, "AAAAC3", NL >>] }

RaceInit ==
    /\ AuthIdle
    /\ SessionIdle
    /\ ResolveIdle
    /\ DataIdle
    /\ StoreIdle
    /\ server_ip = ServerIp
    /\ known_hosts \in RaceStores
    /\ calls = 0
    /\ presented = [alg |-> "", key |-> ""]
    /\ stdin_line = << >>
    /\ prompted = FALSE
    /\ verdict = "none"
    /\ before = known_hosts
    /\ rpc = [p \in Procs |-> "exists"]
    /\ rkey \in [Procs -> PublicKeys]
    /\ appended = << >>

\* the file taken as missing without a look at it
ExistsNever(file) == FALSE

\* self.known_hosts.exists()
Exists(file) == file.exists

\* fs::write(&self.known_hosts, ""): the file created or truncated, and
\* nothing written
WriteEmpty(file) == [exists |-> TRUE, content |-> << >>]

\* `if !self.known_hosts.exists()`
RaceExists(p) ==
    /\ rpc[p] = "exists"
    /\ rpc' = [rpc EXCEPT ![p] = IF Exists(known_hosts) THEN "scan" ELSE "create"]
    /\ UNCHANGED << known_hosts, rkey, appended >>
    /\ UNCHANGED otherThanRace

\* fs::create_dir_all(parent), fs::write(&self.known_hosts, "")
RaceCreate(p) ==
    /\ rpc[p] = "create"
    /\ known_hosts' = WriteEmpty(known_hosts)
    /\ rpc' = [rpc EXCEPT ![p] = "scan"]
    /\ UNCHANGED << rkey, appended >>
    /\ UNCHANGED otherThanRace

\* fs::File::open and the scan of the lines
RaceScan(p) ==
    /\ rpc[p] = "scan"
    /\ LET found == Scan(Lines(known_hosts.content), server_ip, rkey[p])
       IN  rpc' = [rpc EXCEPT ![p] = CASE found = "match" -> "accepted"
                                       [] found = "changed" -> "refused"
                                       [] found = "unknown" -> "prompt"]
    /\ UNCHANGED << known_hosts, rkey, appended >>
    /\ UNCHANGED otherThanRace

\* handle_unknown_host up to its call of trust_host; input is what read_line
\* gives
RacePrompt(p, input) ==
    /\ rpc[p] = "prompt"
    /\ rpc' = [rpc EXCEPT ![p] =
                 IF input = ReadError THEN "failed"
                 ELSE IF Trusts(input, Fingerprint(rkey[p])) THEN "trust"
                 ELSE "refused"]
    /\ UNCHANGED << known_hosts, rkey, appended >>
    /\ UNCHANGED otherThanRace

\* trust_host: open with create(true).append(true), write_all(entry)
RaceTrust(p) ==
    /\ rpc[p] = "trust"
    /\ known_hosts' = TrustHost(known_hosts, server_ip, rkey[p])
    /\ appended' = Append(appended, EntryBytes(server_ip, rkey[p]))
    /\ rpc' = [rpc EXCEPT ![p] = "accepted"]
    /\ UNCHANGED rkey
    /\ UNCHANGED otherThanRace

RaceNext ==
    \E p \in Procs :
        \/ RaceExists(p)
        \/ RaceCreate(p)
        \/ RaceScan(p)
        \/ \E input \in StdinResults : RacePrompt(p, input)
        \/ RaceTrust(p)

RaceSpec == RaceInit /\ [][RaceNext]_vars

\* the entries appended so far, one after the other
RECURSIVE Concat(_)
Concat(entries) ==
    IF entries = << >> THEN << >> ELSE Head(entries) \o Concat(Tail(entries))

\* the store holds what it held at first and every entry appended since
NothingLost == known_hosts.content = before.content \o Concat(appended)

\* process p alone has taken steps
Alone(p) == \A q \in Procs \ {p} : rpc[q] = "exists"

\* this step erases bytes of the store
Erases ==
    \/ Len(known_hosts'.content) < Len(known_hosts.content)
    \/ SubSeq(known_hosts'.content, 1, Len(known_hosts.content)) # known_hosts.content

\* C35: two processes running check_server_key on a store path that does
\* not exist yet can race: the only step that erases anything is the
\* fs::write of the empty file by a process that saw the file missing, made
\* after the other process appended its entry, and that interleaving exists;
\* while one process runs alone the store keeps every entry appended.
C35_CreateRacesWithAppend ==
    /\ [][ Erases =>
              \E p \in Procs :
                  /\ rpc[p] = "create"
                  /\ rpc'[p] = "scan"
                  /\ ~before.exists
                  /\ appended # << >>
                  /\ rpc[CHOOSE q \in Procs : q # p] = "accepted"
                  /\ known_hosts'.content = << >> ]_vars
    /\ []((\E p \in Procs : Alone(p)) => NothingLost)
    /\ [](before.exists => NothingLost)

\* one process has appended its entry and the other, which had seen the file
\* missing, has written the empty file over it
C35_Witness ==
    /\ ~before.exists
    /\ Len(appended) = 1
    /\ known_hosts = [exists |-> TRUE, content |-> << >>]
    /\ \E p \in Procs : rpc[p] = "accepted" /\ rpc[CHOOSE q \in Procs : q # p] = "scan"
(***************************************************************************)
(* The dimensions the remote side was told.                                *)
(***************************************************************************)
\* the dimensions of the requests that carry them, in order: the
\* pseudo-terminal request and the window-change notifications
RECURSIVE Communicated(_)
Communicated(reqs) ==
    IF reqs = << >> THEN << >>
    ELSE IF Head(reqs).op \in {"request_pty", "window_change"}
         THEN << Head(reqs).arg >> \o Communicated(Tail(reqs))
         ELSE Communicated(Tail(reqs))

\* C36: while the relay loop of an interactive session runs, its last known
\* dimensions equal the dimensions most recently communicated to the remote
\* side, by the pseudo-terminal request or by the latest window-change
\* notification.
C36_LastKnownIsCommunicated ==
    (mode = "interactive" /\ spc = "loop") =>
        /\ Communicated(sent) # << >>
        /\ LastKnown = Communicated(sent)[Len(Communicated(sent))]
(***************************************************************************)
(* The current-scope record against the scope mapping.                     *)
(***************************************************************************)
\* the scope mapping of the configuration file as it reads now
FileScopes ==
    LET read == Deserialize(config_file.document)
    IN  IF config_file.exists /\ read.ok THEN read.value.scopes ELSE << >>

\* the record is empty or names a scope of the mapping
RecordDefined(record, scopes) == record = << >> \/ Get(scopes, record) # 0

\* this step is the subcommand cmd
Subcommand(cmd) == outcome'.n = outcome.n + 1 /\ outcome'.cmd = cmd

\* C37: after any sequence of use, add-scope, add-server, rm and default the
\* current-scope record is empty or names a scope of the scope mapping in
\* the file; `use` either records a scope (a defined one, by the first
\* line) or fails with ScopeNotFound and leaves the record as it was, and
\* the mapping in the file is as before either way; rm of the scope that is
\* current resets the record to empty, rm of another scope leaves it, and
\* no other subcommand touches the record.
C37_CurrentScopeDefined ==
    /\ [](RecordDefined(current_scope, FileScopes))
    /\ [][ Subcommand("Use") =>
              /\ outcome'.result \in {"Ok", "ScopeNotFound"}
              /\ config_file' # config_file => FileScopes' = FileScopes
              /\ outcome'.result = "Ok" =>
                    (current_scope' # << >> /\ Get(loaded'.scopes, current_scope') # 0)
              /\ outcome'.result = "ScopeNotFound" => current_scope' = current_scope ]_vars
    /\ [][ (Subcommand("RmScope") /\ outcome'.result = "Ok") =>
              current_scope' = IF Get(config'.scopes, current_scope) = 0 THEN << >>
                               ELSE current_scope ]_vars
    /\ [][ (outcome' # outcome /\ outcome'.cmd \notin {"Use", "RmScope"}) =>
              current_scope' = current_scope ]_vars

\* the scope db was added and then made current
C37_Witness ==
    /\ Ran("Use")
    /\ outcome.n >= 2
    /\ current_scope = Db
    /\ Get(FileScopes, Db) # 0
(***************************************************************************)
(* What add_scope and add_server leave of the Config they were given.      *)
(***************************************************************************)
\* the items of a Config: its scopes, its global servers and its scoped
\* servers, each with its name (and scope) and its value
Items(cfg) ==
    {[kind |-> "scope", in |-> << >>, name |-> cfg.scopes[i].name,
      value |-> cfg.scopes[i].scope] : i \in 1..Len(cfg.scopes)}
    \cup
    {[kind |-> "global", in |-> << >>, name |-> cfg.servers[i].name,
      value |-> cfg.servers[i].entry.server] :
        i \in {j \in 1..Len(cfg.servers) : cfg.servers[j].entry.kind = "Global"}}
    \cup
    UNION {{[kind |-> "scoped", in |-> cfg.servers[i].name,
             name |-> cfg.servers[i].entry.servers[k].name,
             value |-> cfg.servers[i].entry.servers[k].server] :
               k \in 1..Len(cfg.servers[i].entry.servers)} :
             i \in {j \in 1..Len(cfg.servers) : cfg.servers[j].entry.kind = "Scope"}}

\* the last subcommand was add-scope or add-server and came to its method
Added ==
    /\ outcome.cmd \in {"AddScope", "AddServer"}
    /\ outcome.result \in {"Ok", "ServerExists", "ScopeExists", "ScopeNotFound"}

\* C38: add_scope and add_server either fail (ServerExists, ScopeExists,
\* ScopeNotFound) and leave the Config as it was, or add exactly one scope or
\* server; every scope and every server, global or scoped, of the Config
\* before the call is in the Config after it with the same value.
C38_AddKeepsEverything ==
    Added =>
        /\ Items(loaded) \subseteq Items(config)
        /\ outcome.result # "Ok" => config = loaded
        /\ outcome.result = "Ok" => Cardinality(Items(config) \ Items(loaded)) = 1

(***************************************************************************)
(* What Config::remove takes away with a scope.                            *)
(***************************************************************************)
\* the definition of the scope called name and the servers scoped to it
OfScope(cfg, name) ==
    {it \in Items(cfg) : \/ it.kind = "scope" /\ it.name = name
                         \/ it.kind = "scoped" /\ it.in = name}

\* C40: Config::remove of a scope removes the definition of that scope and
\* the servers scoped to it and nothing else: every global server and every
\* other scope of the Config before the call is in the Config after it; on
\* an undefined scope it fails with ScopeNotFound and the Config is as it was.
C40_RemoveScopeTakesOnlyTheScope ==
    outcome.cmd = "RmScope" =>
        /\ outcome.result = "ScopeNotFound" => config = loaded
        /\ outcome.result = "Ok" =>
              \E name \in ScopeNames :
                  /\ Get(loaded.scopes, name) # 0
                  /\ Items(config) = Items(loaded) \ OfScope(loaded, name)

(***************************************************************************)
(* The order of the entries Config::remove leaves, and what resolve_server *)
(* finds among them.                                                       *)
(***************************************************************************)
\* the entries of the map `new` stand in the order they have in `old`
KeptOrder(old, new) ==
    \A i, j \in 1..Len(new) :
        i < j => Get(old, new[i].name) < Get(old, new[j].name)

\* the order kept among the scopes, among the entries of servers, and among
\* the servers of every scope that is still there
KeptOrders(old, new) ==
    /\ KeptOrder(old.scopes, new.scopes)
    /\ KeptOrder(old.servers, new.servers)
    /\ \A i \in 1..Len(new.servers) :
          LET b == Get(old.servers, new.servers[i].name)
          IN  (b # 0 /\ new.servers[i].entry.kind = "Scope"
                     /\ old.servers[b].entry.kind = "Scope") =>
                  KeptOrder(old.servers[b].entry.servers, new.servers[i].entry.servers)

\* db, and db.address, which the names `db` and `address` both match
RemovalHosts == { Db, Db \o << "." >> \o AddressName }

\* a server the call removed has the name h or a name that matches h
MatchedByRemoved(h, old, new) ==
    \E it \in Items(old) \ Items(new) :
        /\ it.kind \in {"global", "scoped"}
        /\ \/ it.name = h
           \/ RegexNew(it.name).ok /\ IsMatch(RegexNew(it.name).atoms, h)

\* C39: Config::remove of a server or of a scope keeps the relative order of
\* the entries it leaves, so resolve_server returns the same server after it
\* as before it for every host the removed entry did not match.
C39_RemoveKeepsOrder ==
    [][ ((Subcommand("RmServer") \/ Subcommand("RmScope")) /\ outcome'.result = "Ok") =>
            /\ KeptOrders(loaded', config')
            /\ \A h \in RemovalHosts :
                  ~MatchedByRemoved(h, loaded', config') =>
                      Resolve(h, config', current_scope').result
                          = Resolve(h, loaded', current_scope).result ]_vars

====
